---- MODULE Spec2Model ----
(***************************************************************************)
(* Task tracker: the session gate (proxy) and the task endpoints           *)
(* /api/tasks and /api/tasks/{id}, over a per-user task store.             *)
(*                                                                         *)
(* Strings are sequences of symbols.  A symbol is a blank (" ") or a whole  *)
(* word ("Project", "TODO", "urgent", ...) standing for its characters.    *)
(***************************************************************************)
EXTENDS Integers, Sequences, FiniteSets, Bags, TLC

\* ------------------------------------------------------------------ bounds
MaxTasks == 2        \* tasks ever created in a behaviour of Spec and SpecList
MaxValidated == 1    \* tasks ever created in a behaviour of SpecValidate

\* ------------------------------------------------------------- identities
Users == {"u1", "u2"}

\* ---------------------------------------------------------------- strings
\* String.prototype.toLowerCase, symbol by symbol
LowerSym(c) ==
    CASE c = "Complete" -> "complete"
      [] c = "Project" -> "project"
      [] c = "PROJECT" -> "project"
      [] c = "Write" -> "write"
      [] c = "Deploy" -> "deploy"
      [] OTHER -> c

ToLower(s) == [i \in 1..Len(s) |-> LowerSym(s[i])]

\* String.prototype.trim: drop leading and trailing white space
RECURSIVE TrimLeft(_)
TrimLeft(s) ==
    IF s # <<>> /\ Head(s) = " " THEN TrimLeft(Tail(s)) ELSE s

RECURSIVE TrimRight(_)
TrimRight(s) ==
    IF s # <<>> /\ s[Len(s)] = " " THEN TrimRight(SubSeq(s, 1, Len(s) - 1)) ELSE s

Trim(s) == TrimRight(TrimLeft(s))

\* String.prototype.includes: needle is a contiguous part of hay
Includes(hay, needle) ==
    \E i \in 0..(Len(hay) - Len(needle)) :
        SubSeq(hay, i + 1, i + Len(needle)) = needle

\* ------------------------------------------------------------ JSON values
\* t is the JavaScript type of the value; s its text when a string, n its
\* number when a number, boolean (0/1) or Date (time value).
JUndef   == [t |-> "undefined", s |-> <<>>, n |-> 0]
JNull    == [t |-> "null", s |-> <<>>, n |-> 0]
JStr(s)  == [t |-> "string", s |-> s, n |-> 0]
JNum(n)  == [t |-> "number", s |-> <<>>, n |-> n]
JBool(b) == [t |-> "boolean", s |-> <<>>, n |-> IF b THEN 1 ELSE 0]
JDate(n) == [t |-> "date", s |-> <<>>, n |-> n]

\* ToBoolean: undefined, null, "", 0 and false are falsy
Truthy(v) ==
    CASE v.t = "undefined" -> FALSE
      [] v.t = "null" -> FALSE
      [] v.t = "string" -> v.s # <<>>
      [] v.t = "number" -> v.n # 0
      [] v.t = "boolean" -> v.n = 1
      [] OTHER -> TRUE

\* ----------------------------------------------------------------- enums
Status == {<<"TODO">>, <<"IN_PROGRESS">>, <<"DONE">>}
Priority == {<<"LOW">>, <<"MEDIUM">>, <<"HIGH">>}
StatusTODO == <<"TODO">>
PriorityLOW == <<"LOW">>
ALL == <<"ALL">>

isValidStatus(value) ==
    IF ~Truthy(value) THEN FALSE
    ELSE value.t = "string" /\ value.s \in Status

isValidPriority(value) ==
    IF ~Truthy(value) THEN FALSE
    ELSE value.t = "string" /\ value.s \in Priority

\* ------------------------------------------------------------------ dates
\* Date.parse on the text of a value: a time value, or NaN.  The only texts
\* of the alphabet that denote a date are the words below.
NaN == -1
DateTexts == {<<"2025-12-31">>, <<"2026-01-15">>}

DateParse(v) ==
    IF v.t = "string" /\ v.s \in DateTexts
    THEN (IF v.s = <<"2025-12-31">> THEN 20251231 ELSE 20260115)
    ELSE NaN

\* new Date(v) for a value that passed validation
NewDate(v) == JDate(DateParse(v))

\* -------------------------------------------------------------- responses
\* NextResponse.json(body, {status}): tasks holds the task(s) of a success
\* body ({tasks: [...]} or {task}), error/details/message the other fields.
Response(status, error, details) ==
    [status |-> status, error |-> error, details |-> details,
     tasks |-> <<>>, message |-> ""]

TasksResponse(status, tasks) ==
    [status |-> status, error |-> "", details |-> "",
     tasks |-> tasks, message |-> ""]

MessageResponse(message) ==
    [status |-> 200, error |-> "", details |-> "",
     tasks |-> <<>>, message |-> message]

Unauthorized == Response(401, "Unauthorized", "User ID not found in headers")
NotFound == Response(404, "Not found", "Task not found or access denied")
InternalError == Response(500, "Internal server error", "")
ValidationError(details) == Response(400, "Validation error", details)

\* ----------------------------------------------------------- storage layer
\* The store maps the id of each existing task to its row.
Row(id, userId, title, description, priority, status, dueDate, createdAt) ==
    [id |-> id, userId |-> userId, title |-> title,
     description |-> description, priority |-> priority, status |-> status,
     dueDate |-> dueDate, createdAt |-> createdAt]

\* {contains: needle, mode: "insensitive"} on a nullable text column
ContainsMutantCaseSensitive(column, needle) ==
    column.t = "string" /\ Includes(column.s, needle)

ContainsInsensitive(column, needle) ==
    column.t = "string" /\ Includes(ToLower(column.s), ToLower(needle))

\* does a row satisfy the where clause of the list endpoint
MatchesWhereMutantNoOwner(row, where) ==
    /\ (where.status.t # "undefined" => row.status = where.status.s)
    /\ (where.OR.t # "undefined" =>
            \/ ContainsInsensitive(JStr(row.title), where.OR.s)
            \/ ContainsInsensitive(row.description, where.OR.s))

MatchesWhere(row, where) ==
    /\ row.userId = where.userId
    /\ (where.status.t # "undefined" => row.status = where.status.s)
    /\ (where.OR.t # "undefined" =>
            \/ ContainsInsensitive(JStr(row.title), where.OR.s)
            \/ ContainsInsensitive(row.description, where.OR.s))

\* orderBy {createdAt: "desc"}
RECURSIVE OrderByCreatedAtDesc(_)
OrderByCreatedAtDesc(rows) ==
    IF rows = {} THEN <<>>
    ELSE LET newest == CHOOSE r \in rows :
                           \A o \in rows : o.createdAt <= r.createdAt
         IN <<newest>> \o OrderByCreatedAtDesc(rows \ {newest})

\* prisma.task.findMany({where, orderBy})
findMany(st, where) ==
    OrderByCreatedAtDesc({st[i] : i \in {j \in DOMAIN st : MatchesWhere(st[j], where)}})

\* prisma.task.findFirst({where: {id, userId}}): the matching rows (none or one)
findFirstMutantIdOnly(st, id, userId) ==
    {st[i] : i \in {j \in DOMAIN st : j = id}}

findFirst(st, id, userId) ==
    {st[i] : i \in {j \in DOMAIN st : j = id /\ st[j].userId = userId}}

\* prisma.task.create({data}): id and createdAt are assigned by the store
create(st, nid, data) ==
    [i \in DOMAIN st \cup {nid} |->
        IF i = nid
        THEN Row(nid, data.userId, data.title, data.description,
                 data.priority, data.status, data.dueDate, nid)
        ELSE st[i]]

\* prisma.task.update({where: {id}, data}): only the keys present in data
\* are written; the caller checks that the row exists (else update throws)
update(st, id, data) ==
    [st EXCEPT ![id] =
        [id |-> @.id, userId |-> @.userId,
         title |-> IF data.title.t # "undefined" THEN data.title.s ELSE @.title,
         description |-> IF data.description.t # "undefined"
                         THEN data.description ELSE @.description,
         priority |-> IF data.priority.t # "undefined"
                      THEN data.priority.s ELSE @.priority,
         status |-> IF data.status.t # "undefined"
                    THEN data.status.s ELSE @.status,
         dueDate |-> IF data.dueDate.t # "undefined"
                     THEN data.dueDate ELSE @.dueDate,
         createdAt |-> @.createdAt]]

\* prisma.task.delete({where: {id}})
delete(st, id) == [i \in DOMAIN st \ {id} |-> st[i]]

\* ---------------------------------------------------------- session gate
\* Outcomes of auth.api.getSession: a session of a user, no session (null),
\* or a rejected promise.
NoSession == "none"
SessionThrows == "throws"
Sessions == Users \cup {NoSession, SessionThrows}

\* the x-user-id header when it is absent (headers().get gives null)
NoHeader == ""

\* proxy(request): what the gate does with a request whose session lookup
\* has the given outcome and whose client sent the header value hdr.
\*   "throw": the lookup rejected; proxy has no handler for it
\*   "401"  : the gate answers itself
\*   "next" : the request goes on with x-user-id set to the session user
proxyMutantKeepClientHeader(session, hdr) ==
    IF session = SessionThrows THEN [kind |-> "throw", xUserId |-> NoHeader]
    ELSE IF session = NoSession THEN [kind |-> "401", xUserId |-> NoHeader]
    ELSE [kind |-> "next", xUserId |-> IF hdr # NoHeader THEN hdr ELSE session]

proxy(session, hdr) ==
    IF session = SessionThrows THEN [kind |-> "throw", xUserId |-> NoHeader]
    ELSE IF session = NoSession THEN [kind |-> "401", xUserId |-> NoHeader]
    ELSE [kind |-> "next", xUserId |-> session]

GateUnauthorized == Response(401, "Unauthorized", "")
\* the rejection leaves proxy; the framework answers the request
GateFailure == Response(500, "", "")

\* ------------------------------------------------------ handler results
Result(st, nid, resp) == [st |-> st, nid |-> nid, resp |-> resp]

\* body.description?.trim() || null
TrimOrNull(v) ==
    IF v.t = "string" /\ Trim(v.s) # <<>> THEN JStr(Trim(v.s)) ELSE JNull

\* body.description?.trim() is a TypeError for a value that is neither
\* undefined/null nor has a trim method
TrimThrows(v) == v.t \notin {"undefined", "null", "string"}

\* -------------------------------------------------- GET /api/tasks (list)
\* the where clause built from the query parameters
ListWhereMutantNoStatus(userId, statusParam, search) ==
    [userId |-> userId,
     status |-> JUndef,
     OR |-> IF Truthy(search) /\ Trim(search.s) # <<>>
            THEN JStr(Trim(search.s)) ELSE JUndef]

ListWhere(userId, statusParam, search) ==
    [userId |-> userId,
     status |-> IF Truthy(statusParam) /\ statusParam.s # ALL
               THEN statusParam ELSE JUndef,
     OR |-> IF Truthy(search) /\ Trim(search.s) # <<>>
            THEN JStr(Trim(search.s)) ELSE JUndef]

ListGET(st, nid, userId, statusParam, search) ==
    IF userId = NoHeader THEN Result(st, nid, Unauthorized)
    ELSE IF Truthy(statusParam) /\ statusParam.s # ALL /\ ~isValidStatus(statusParam)
    THEN Result(st, nid,
            Response(400, "Invalid status parameter",
                     "Status must be one of: TODO, IN_PROGRESS, DONE, or ALL"))
    ELSE Result(st, nid,
            TasksResponse(200, findMany(st, ListWhere(userId, statusParam, search))))

\* ------------------------------------------------ POST /api/tasks (create)
\* the first validation failure of a create payload, "" when there is none
CreateError(body) ==
    IF ~Truthy(body.title) \/ body.title.t # "string" \/ Trim(body.title.s) = <<>>
    THEN "Title is required and must be a non-empty string"
    ELSE IF Truthy(body.description) /\ body.description.t # "string"
    THEN "Description must be a string"
    ELSE IF Truthy(body.priority) /\ ~isValidPriority(body.priority)
    THEN "Priority must be one of: LOW, MEDIUM, HIGH"
    ELSE IF Truthy(body.status) /\ ~isValidStatus(body.status)
    THEN "Status must be one of: TODO, IN_PROGRESS, DONE"
    ELSE IF Truthy(body.dueDate) /\ DateParse(body.dueDate) = NaN
    THEN "Due date must be a valid ISO date string"
    ELSE ""

\* the data object handed to prisma.task.create
CreateDataMutantDefaultMedium(body, userId) ==
    [title |-> Trim(body.title.s),
     description |-> TrimOrNull(body.description),
     priority |-> IF Truthy(body.priority) THEN body.priority.s ELSE <<"MEDIUM">>,
     status |-> IF Truthy(body.status) THEN body.status.s ELSE StatusTODO,
     dueDate |-> IF Truthy(body.dueDate) THEN NewDate(body.dueDate) ELSE JNull,
     userId |-> userId]

CreateDataMutantOwnerFromBody(body, userId) ==
    [title |-> Trim(body.title.s),
     description |-> TrimOrNull(body.description),
     priority |-> IF Truthy(body.priority) THEN body.priority.s ELSE PriorityLOW,
     status |-> IF Truthy(body.status) THEN body.status.s ELSE StatusTODO,
     dueDate |-> IF Truthy(body.dueDate) THEN NewDate(body.dueDate) ELSE JNull,
     userId |-> IF Truthy(body.userId) THEN body.userId.s[1] ELSE userId]

CreateData(body, userId) ==
    [title |-> Trim(body.title.s),
     description |-> TrimOrNull(body.description),
     priority |-> IF Truthy(body.priority) THEN body.priority.s ELSE PriorityLOW,
     status |-> IF Truthy(body.status) THEN body.status.s ELSE StatusTODO,
     dueDate |-> IF Truthy(body.dueDate) THEN NewDate(body.dueDate) ELSE JNull,
     userId |-> userId]

TasksPOST(st, nid, userId, body) ==
    IF userId = NoHeader THEN Result(st, nid, Unauthorized)
    ELSE IF ~body.json THEN Result(st, nid, InternalError)       \* req.json() rejects
    ELSE IF CreateError(body) # ""
    THEN Result(st, nid, ValidationError(CreateError(body)))
    ELSE IF TrimThrows(body.description)
    THEN Result(st, nid, InternalError)                          \* TypeError, caught
    ELSE LET st2 == create(st, nid, CreateData(body, userId))
         IN Result(st2, nid + 1, TasksResponse(201, <<st2[nid]>>))

\* ------------------------------------------------- GET /api/tasks/{id}
TaskGET(st, nid, userId, id) ==
    IF userId = NoHeader THEN Result(st, nid, Unauthorized)
    ELSE LET task == findFirst(st, id, userId)
         IN IF task = {} THEN Result(st, nid, NotFound)
            ELSE Result(st, nid, TasksResponse(200, <<st[id]>>))

\* ------------------------------------------------- PUT /api/tasks/{id}
\* the first validation failure of an update payload, "" when there is none
UpdateErrorMutantNoTrim(body) ==
    IF body.title.t # "undefined"
       /\ (body.title.t # "string" \/ body.title.s = <<>>)
    THEN "Title must be a non-empty string"
    ELSE IF body.description.t \notin {"undefined", "null"}
            /\ body.description.t # "string"
    THEN "Description must be a string"
    ELSE IF body.priority.t # "undefined" /\ ~isValidPriority(body.priority)
    THEN "Priority must be one of: LOW, MEDIUM, HIGH"
    ELSE IF body.status.t # "undefined" /\ ~isValidStatus(body.status)
    THEN "Status must be one of: TODO, IN_PROGRESS, DONE"
    ELSE IF body.dueDate.t \notin {"undefined", "null"}
            /\ DateParse(body.dueDate) = NaN
    THEN "Due date must be a valid ISO date string"
    ELSE ""

UpdateError(body) ==
    IF body.title.t # "undefined"
       /\ (body.title.t # "string" \/ Trim(body.title.s) = <<>>)
    THEN "Title must be a non-empty string"
    ELSE IF body.description.t \notin {"undefined", "null"}
            /\ body.description.t # "string"
    THEN "Description must be a string"
    ELSE IF body.priority.t # "undefined" /\ ~isValidPriority(body.priority)
    THEN "Priority must be one of: LOW, MEDIUM, HIGH"
    ELSE IF body.status.t # "undefined" /\ ~isValidStatus(body.status)
    THEN "Status must be one of: TODO, IN_PROGRESS, DONE"
    ELSE IF body.dueDate.t \notin {"undefined", "null"}
            /\ DateParse(body.dueDate) = NaN
    THEN "Due date must be a valid ISO date string"
    ELSE ""

\* updateData: a key is JUndef when the payload does not supply it
UpdateDataMutantClearsDescription(body) ==
    [title |-> IF body.title.t # "undefined"
               THEN JStr(Trim(body.title.s)) ELSE JUndef,
     description |-> TrimOrNull(body.description),
     priority |-> IF body.priority.t # "undefined" THEN body.priority ELSE JUndef,
     status |-> IF body.status.t # "undefined" THEN body.status ELSE JUndef,
     dueDate |-> IF body.dueDate.t # "undefined"
                 THEN (IF Truthy(body.dueDate) THEN NewDate(body.dueDate) ELSE JNull)
                 ELSE JUndef]

UpdateData(body) ==
    [title |-> IF body.title.t # "undefined"
               THEN JStr(Trim(body.title.s)) ELSE JUndef,
     description |-> IF body.description.t # "undefined"
                     THEN TrimOrNull(body.description) ELSE JUndef,
     priority |-> IF body.priority.t # "undefined" THEN body.priority ELSE JUndef,
     status |-> IF body.status.t # "undefined" THEN body.status ELSE JUndef,
     dueDate |-> IF body.dueDate.t # "undefined"
                 THEN (IF Truthy(body.dueDate) THEN NewDate(body.dueDate) ELSE JNull)
                 ELSE JUndef]

\* PUT up to and including validation: the response that ends the request
\* there, or status 0 when the handler goes on to prisma.task.update
PutCheckMutantValidateFirst(st, userId, id, body) ==
    IF userId = NoHeader THEN Unauthorized
    ELSE IF ~body.json THEN InternalError
    ELSE IF UpdateError(body) # "" THEN ValidationError(UpdateError(body))
    ELSE IF findFirst(st, id, userId) = {} THEN NotFound
    ELSE Response(0, "", "")

PutCheckMutantNoOwner(st, userId, id, body) ==
    IF userId = NoHeader THEN Unauthorized
    ELSE IF id \notin DOMAIN st THEN NotFound
    ELSE IF ~body.json THEN InternalError
    ELSE IF UpdateError(body) # "" THEN ValidationError(UpdateError(body))
    ELSE Response(0, "", "")

PutCheck(st, userId, id, body) ==
    IF userId = NoHeader THEN Unauthorized
    ELSE IF findFirst(st, id, userId) = {} THEN NotFound
    ELSE IF ~body.json THEN InternalError                        \* req.json() rejects
    ELSE IF UpdateError(body) # "" THEN ValidationError(UpdateError(body))
    ELSE Response(0, "", "")

\* prisma.task.update and the response; update throws when the row is gone
PutWriteMutantReplacesRow(st, nid, id, body) ==
    IF id \notin DOMAIN st THEN Result(st, nid, InternalError)
    ELSE LET st2 == update([st EXCEPT ![id].priority = PriorityLOW,
                                      ![id].status = StatusTODO],
                           id, UpdateData(body))
         IN Result(st2, nid, TasksResponse(200, <<st2[id]>>))

PutWrite(st, nid, id, body) ==
    IF id \notin DOMAIN st THEN Result(st, nid, InternalError)
    ELSE LET st2 == update(st, id, UpdateData(body))
         IN Result(st2, nid, TasksResponse(200, <<st2[id]>>))

TaskPUT(st, nid, userId, id, body) ==
    LET early == PutCheck(st, userId, id, body)
    IN IF early.status # 0 THEN Result(st, nid, early)
       ELSE PutWrite(st, nid, id, body)

\* ----------------------------------------------- DELETE /api/tasks/{id}
DeleteCheckMutantNoLookup(st, userId, id) ==
    IF userId = NoHeader THEN Unauthorized
    ELSE Response(0, "", "")

DeleteCheck(st, userId, id) ==
    IF userId = NoHeader THEN Unauthorized
    ELSE IF findFirst(st, id, userId) = {} THEN NotFound
    ELSE Response(0, "", "")

\* prisma.task.delete and the response; delete throws when the row is gone
DeleteWrite(st, nid, id) ==
    IF id \notin DOMAIN st THEN Result(st, nid, InternalError)
    ELSE Result(delete(st, id), nid, MessageResponse("Task deleted successfully"))

TaskDELETE(st, nid, userId, id) ==
    LET early == DeleteCheck(st, userId, id)
    IN IF early.status # 0 THEN Result(st, nid, early)
       ELSE DeleteWrite(st, nid, id)

\* the route handler a request is dispatched to, run for x-user-id = userId
Handle(st, nid, userId, req) ==
    CASE req.method = "LIST" -> ListGET(st, nid, userId, req.status, req.search)
      [] req.method = "POST" -> TasksPOST(st, nid, userId, req.body)
      [] req.method = "GET" -> TaskGET(st, nid, userId, req.id)
      [] req.method = "PUT" -> TaskPUT(st, nid, userId, req.id, req.body)
      [] req.method = "DELETE" -> TaskDELETE(st, nid, userId, req.id)

\* ------------------------------------------------------ storage failures
\* the storage calls a handler issues, in order, when none of them throws
StorageCalls(st, nid, userId, req) ==
    CASE req.method = "LIST" ->
             IF ListGET(st, nid, userId, req.status, req.search).resp.status = 200
             THEN <<"findMany">> ELSE <<>>
      [] req.method = "POST" ->
             IF TasksPOST(st, nid, userId, req.body).resp.status = 201
             THEN <<"create">> ELSE <<>>
      [] req.method = "GET" ->
             IF userId = NoHeader THEN <<>> ELSE <<"findFirst">>
      [] req.method = "PUT" ->
             IF userId = NoHeader THEN <<>>
             ELSE IF PutCheck(st, userId, req.id, req.body).status = 0
             THEN <<"findFirst", "update">> ELSE <<"findFirst">>
      [] req.method = "DELETE" ->
             IF userId = NoHeader THEN <<>>
             ELSE IF DeleteCheck(st, userId, req.id).status = 0
             THEN <<"findFirst", "delete">> ELSE <<"findFirst">>

\* the log of the first n of the calls, the last of them throwing when threw
CallLog(calls, n, threw) ==
    [i \in 1..n |-> [op |-> calls[i], threw |-> threw /\ i = n]]

\* a handler run in which storage call number failAt throws (none does when
\* the handler issues fewer calls): the catch block of the handler answers
HandleWithFaultMutantRetry(st, nid, userId, req, failAt) ==
    LET calls == StorageCalls(st, nid, userId, req)
        r == Handle(st, nid, userId, req)
    IN IF failAt \in 1..Len(calls)
       THEN [st |-> r.st, nid |-> r.nid, resp |-> r.resp,
             log |-> CallLog(calls, failAt, TRUE)
                         \o CallLog(SubSeq(calls, failAt, Len(calls)),
                                    Len(calls) - failAt + 1, FALSE)]
       ELSE [st |-> r.st, nid |-> r.nid, resp |-> r.resp,
             log |-> CallLog(calls, Len(calls), FALSE)]

HandleWithFault(st, nid, userId, req, failAt) ==
    LET calls == StorageCalls(st, nid, userId, req)
        r == Handle(st, nid, userId, req)
    IN IF failAt \in 1..Len(calls)
       THEN [st |-> st, nid |-> nid, resp |-> InternalError,
             log |-> CallLog(calls, failAt, TRUE)]
       ELSE [st |-> r.st, nid |-> r.nid, resp |-> r.resp,
             log |-> CallLog(calls, Len(calls), FALSE)]

\* ========================================================== the page
\* ------------------------------------------------------ the view pipeline
SortOptions == {"date-desc", "date-asc", "priority-desc", "priority-asc"}
FilterOptions == {ALL} \cup Status

\* the callback of tasks.filter: does the task stay in the view
MatchesFilterMutantCaseSensitive(task, filterStatus, debouncedSearchQuery) ==
    IF filterStatus # ALL /\ task.status # filterStatus THEN FALSE
    ELSE IF debouncedSearchQuery # <<>>
    THEN \/ Includes(task.title, debouncedSearchQuery)
         \/ /\ task.description.t = "string"
            /\ Includes(task.description.s, debouncedSearchQuery)
    ELSE TRUE

MatchesFilter(task, filterStatus, debouncedSearchQuery) ==
    IF filterStatus # ALL /\ task.status # filterStatus THEN FALSE
    ELSE IF debouncedSearchQuery # <<>>
    THEN LET query == ToLower(debouncedSearchQuery)
         IN \/ Includes(ToLower(task.title), query)
            \/ /\ task.description.t = "string"
               /\ Includes(ToLower(task.description.s), query)
    ELSE TRUE

\* const priorityOrder = { HIGH: 3, MEDIUM: 2, LOW: 1 }
priorityOrder(p) ==
    CASE p = <<"HIGH">> -> 3
      [] p = <<"MEDIUM">> -> 2
      [] p = <<"LOW">> -> 1

\* new Date(createdAt).getTime(): the time value of the ISO text of a
\* creation time, in days
getTime(createdAt) ==
    CASE createdAt = "2025-12-29" -> 20451
      [] createdAt = "2025-12-30" -> 20452
      [] createdAt = "2025-12-31" -> 20453
      [] createdAt = "2026-01-01" -> 20454

\* the comparator of .sort: negative when a goes first, positive when b does
CompareMutantAscIsDesc(a, b, sortBy) ==
    CASE sortBy = "date-desc" -> getTime(b.createdAt) - getTime(a.createdAt)
      [] sortBy = "date-asc" -> getTime(a.createdAt) - getTime(b.createdAt)
      [] sortBy = "priority-desc" ->
             priorityOrder(b.priority) - priorityOrder(a.priority)
      [] sortBy = "priority-asc" ->
             priorityOrder(b.priority) - priorityOrder(a.priority)
      [] OTHER -> 0

Compare(a, b, sortBy) ==
    CASE sortBy = "date-desc" -> getTime(b.createdAt) - getTime(a.createdAt)
      [] sortBy = "date-asc" -> getTime(a.createdAt) - getTime(b.createdAt)
      [] sortBy = "priority-desc" ->
             priorityOrder(b.priority) - priorityOrder(a.priority)
      [] sortBy = "priority-asc" ->
             priorityOrder(a.priority) - priorityOrder(b.priority)
      [] OTHER -> 0

\* Array.prototype.sort is stable: x, which came after every element of the
\* sorted s, goes behind the elements the comparator does not put after it
RECURSIVE InsertSorted(_, _, _)
InsertSorted(x, s, sortBy) ==
    IF s = <<>> THEN <<x>>
    ELSE IF Compare(Head(s), x, sortBy) <= 0
    THEN <<Head(s)>> \o InsertSorted(x, Tail(s), sortBy)
    ELSE <<x>> \o s

RECURSIVE Sort(_, _)
Sort(s, sortBy) ==
    IF s = <<>> THEN <<>>
    ELSE InsertSorted(s[Len(s)], Sort(SubSeq(s, 1, Len(s) - 1), sortBy), sortBy)

\* Array.prototype.filter with the callback above: a new array
Filter(s, filterStatus, debouncedSearchQuery) ==
    LET Keep(task) == MatchesFilter(task, filterStatus, debouncedSearchQuery)
    IN SelectSeq(s, Keep)

\* the useMemo callback: source is the tasks array as the callback leaves it,
\* view the array it returns
filteredAndSortedTasksMutantSortInPlace(tasks, filterStatus, debouncedSearchQuery, sortBy) ==
    [source |-> Sort(tasks, sortBy),
     view |-> Filter(Sort(tasks, sortBy), filterStatus, debouncedSearchQuery)]

filteredAndSortedTasks(tasks, filterStatus, debouncedSearchQuery, sortBy) ==
    [source |-> tasks,
     view |-> Sort(Filter(tasks, filterStatus, debouncedSearchQuery), sortBy)]

\* ------------------------------------------------------------ useDebounce
\* useDebounce(searchQuery, 300): the delay in milliseconds
DebounceDelay == 300

\* a pending setTimeout: the value its callback captured and the time left
Timer(value, remaining) == [value |-> value, remaining |-> remaining]

Min(a, b) == IF a < b THEN a ELSE b
Max(a, b) == IF a > b THEN a ELSE b

\* ------------------------------------------------------------ page state
\* null in user, error, editingTask and deletingTaskId
NoError == ""
NoTaskId == 0
NoTask ==
    Row(NoTaskId, NoSession, <<>>, JNull, <<>>, <<>>, JNull, "")

\* the useState initialiser of TaskModal: the form of a task, the blank
\* form for no task
InitialFormData(task) ==
    [title |-> IF task # NoTask THEN task.title ELSE <<>>,
     description |-> IF task # NoTask /\ task.description.t = "string"
                     THEN task.description.s ELSE <<>>,
     status |-> IF task # NoTask THEN task.status ELSE <<"TODO">>,
     priority |-> IF task # NoTask THEN task.priority ELSE <<"LOW">>,
     dueDate |-> IF task # NoTask /\ task.dueDate.t = "string"
                 THEN task.dueDate.s ELSE <<>>]

\* the form handleClose resets to
BlankFormData ==
    [title |-> <<>>, description |-> <<>>, status |-> <<"TODO">>,
     priority |-> <<"LOW">>, dueDate |-> <<>>]

\* no handler of the page has run

\* ================================================================ state
VARIABLES
    taskTable,      \* the task table: id -> row, for the rows that exist
    nextId,         \* the id (and creation time) the store assigns next
    last,           \* the request served last, and what became of it
    dbLog,          \* the storage calls of the last request, in order
    tasks,          \* page state: the tasks the page holds
    filterStatus,   \* page state: the status filter
    sortBy,         \* page state: the sort option
    searchQuery,    \* page state: the text of the search box
    debouncedValue, \* the state of useDebounce
    timers,         \* the pending timeouts of useDebounce, oldest first
    heldFor,        \* how long searchQuery has had its value (up to the delay)
    view,           \* the memoised filteredAndSortedTasks
    running,        \* the PUT and DELETE handlers between lookup and write
    overtaker,      \* the request that wrote the task of the request served
                    \* last between that request's lookup and its write
    authSession,    \* the session the auth service has for the browser
    commits,        \* the number of writes the store has done
    inflight,       \* the bag of the browser's requests that have not settled
    user,           \* page state: the signed-in user, NoSession for null
    isCheckingAuth, \* page state
    isLoading,      \* page state
    error,          \* page state: the error message, NoError for null
    isTaskModalOpen,    \* page state
    isDeleteModalOpen,  \* page state
    editingTask,    \* page state: the task being edited, NoTask for null
    deletingTaskId, \* page state: the id pending deletion, NoTaskId for null
    modalLoading,   \* page state
    formData,       \* the state of TaskModal
    resetTimers,    \* the pending form resets of handleClose
    shownVer,       \* the store's commits when the list in tasks was read
    newestVer       \* the largest such number of any list put in tasks

serverVars == <<taskTable, nextId, last, dbLog>>
raceVars == <<running, overtaker>>
appVars ==
    <<authSession, commits, inflight, user, isCheckingAuth, isLoading, error,
      isTaskModalOpen, isDeleteModalOpen, editingTask, deletingTaskId,
      modalLoading, formData, resetTimers, shownVer, newestVer>>
pageVars ==
    <<tasks, filterStatus, sortBy, searchQuery, debouncedValue, timers,
      heldFor, view>>
vars == <<serverVars, pageVars, raceVars, appVars>>

\* ------------------------------------------------------------- requests
EmptyBody ==
    [json |-> TRUE, title |-> JUndef, description |-> JUndef,
     priority |-> JUndef, status |-> JUndef, dueDate |-> JUndef,
     userId |-> JUndef, id |-> JUndef, createdAt |-> JUndef]

Malformed == [EmptyBody EXCEPT !.json = FALSE]

Request(method, session, hdr, id, body, status, search) ==
    [method |-> method, session |-> session, hdr |-> hdr, id |-> id,
     body |-> body, status |-> status, search |-> search]

NoRequest == Request("NONE", NoSession, NoHeader, 0, EmptyBody, JNull, JNull)

Ids == 1..MaxTasks
\* the task the validation payloads are aimed at: the first one created
ValidatedIds == {1}

\* the x-user-id header the route handler of a request reads
Forwarded(req) == proxy(req.session, req.hdr).xUserId

\* serve one request: the gate, then (only when the gate lets it through)
\* the route handler, whose result on the forwarded request is r
Serve(req, r) ==
    LET g == proxy(req.session, req.hdr)
    IN IF g.kind = "next"
       THEN    /\ taskTable' = r.st
               /\ nextId' = r.nid
               /\ last' = [req |-> req, entered |-> TRUE, userId |-> g.xUserId,
                           resp |-> r.resp]
               /\ UNCHANGED <<dbLog, pageVars, raceVars, appVars>>
       ELSE /\ UNCHANGED <<taskTable, nextId, dbLog, pageVars, raceVars, appVars>>
            /\ last' = [req |-> req, entered |-> FALSE, userId |-> NoHeader,
                        resp |-> IF g.kind = "401" THEN GateUnauthorized
                                 ELSE GateFailure]

ListTasks(R) ==
    \E req \in R :
        /\ req.method = "LIST"
        /\ Serve(req, ListGET(taskTable, nextId, Forwarded(req), req.status, req.search))

\* cap bounds the number of tasks a behaviour creates
CreateTask(R, cap) ==
    \E req \in R :
        /\ req.method = "POST"
        /\ nextId <= cap
        /\ Serve(req, TasksPOST(taskTable, nextId, Forwarded(req), req.body))

GetTask(R) ==
    \E req \in R :
        /\ req.method = "GET"
        /\ Serve(req, TaskGET(taskTable, nextId, Forwarded(req), req.id))

UpdateTask(R) ==
    \E req \in R :
        /\ req.method = "PUT"
        /\ Serve(req, TaskPUT(taskTable, nextId, Forwarded(req), req.id, req.body))

DeleteTask(R) ==
    \E req \in R :
        /\ req.method = "DELETE"
        /\ Serve(req, TaskDELETE(taskTable, nextId, Forwarded(req), req.id))

\* the empty store, no request served yet
ServerInit ==
    /\ taskTable = <<>>
    /\ nextId = 1
    /\ last = [req |-> NoRequest, entered |-> FALSE, userId |-> NoHeader,
               resp |-> Response(0, "", "")]
    /\ dbLog = <<>>
    /\ running = <<>>
    /\ overtaker = NoRequest

\* the page once mounted, holding the tasks of list: the useState defaults
\* and the timeout the first run of the useDebounce effect sets
ViewInit(list) ==
    /\ tasks = list
    /\ filterStatus = ALL
    /\ sortBy = "date-desc"
    /\ searchQuery = <<>>
    /\ debouncedValue = <<>>
    /\ timers = <<Timer(<<>>, DebounceDelay)>>
    /\ heldFor = 0
    /\ view = filteredAndSortedTasks(list, ALL, <<>>, "date-desc").view

\* the page of the signed-in user u1 with no request under way
AppSettled ==
    /\ authSession = "u1"
    /\ commits = 0
    /\ inflight = EmptyBag
    /\ user = "u1"
    /\ isCheckingAuth = FALSE
    /\ isLoading = FALSE
    /\ error = NoError
    /\ isTaskModalOpen = FALSE
    /\ isDeleteModalOpen = FALSE
    /\ editingTask = NoTask
    /\ deletingTaskId = NoTaskId
    /\ modalLoading = FALSE
    /\ formData = InitialFormData(NoTask)
    /\ resetTimers = 0
    /\ shownVer = 0
    /\ newestVer = 0

PageInit(list) == ViewInit(list) /\ AppSettled

Init == ServerInit /\ PageInit(<<>>)

\* ------------------------------------------ requests of any caller (Spec)
Headers == Users \cup {NoHeader}

TitleOnly == [EmptyBody EXCEPT !.title = JStr(<<"Complete", " ", "Project">>)]
StatusDone == [EmptyBody EXCEPT !.status = JStr(<<"DONE">>)]

Bodies ==
    { TitleOnly,
      [TitleOnly EXCEPT !.userId = JStr(<<"u2">>), !.id = JNum(1),
                        !.createdAt = JStr(<<"2025-12-31">>)],
      StatusDone,
      [EmptyBody EXCEPT !.title = JStr(<<>>)],
      Malformed }

\* requests of signed-in users as a browser sends them (no x-user-id)
UserRequests ==
    { Request("LIST", s, NoHeader, 0, EmptyBody, q, JNull) :
        s \in Users, q \in {JNull, JStr(<<"DONE">>)} }
    \cup { Request("POST", s, NoHeader, 0, b, JNull, JNull) :
        s \in Users, b \in Bodies }
    \cup { Request(m, s, NoHeader, i, EmptyBody, JNull, JNull) :
        m \in {"GET", "DELETE"}, s \in Users, i \in Ids }
    \cup { Request("PUT", s, NoHeader, i, b, JNull, JNull) :
        s \in Users, i \in Ids, b \in Bodies }

\* requests with every session outcome and every client-sent x-user-id,
\* aimed at the first task
GateIds == {1}

GateRequests ==
    { Request("LIST", s, h, 0, EmptyBody, JNull, JNull) :
        s \in Sessions, h \in Headers }
    \cup { Request("POST", s, h, 0, TitleOnly, JNull, JNull) :
        s \in Sessions, h \in Headers }
    \cup { Request(m, s, h, i, EmptyBody, JNull, JNull) :
        m \in {"GET", "DELETE"}, s \in Sessions, h \in Headers, i \in GateIds }
    \cup { Request("PUT", s, h, i, StatusDone, JNull, JNull) :
        s \in Sessions, h \in Headers, i \in GateIds }

Requests == UserRequests \cup GateRequests

Next ==
    \/ ListTasks(Requests)
    \/ CreateTask(Requests, MaxTasks)
    \/ GetTask(Requests)
    \/ UpdateTask(Requests)
    \/ DeleteTask(Requests)

Spec == Init /\ [][Next]_vars

\* ------------------------- payloads that exercise validation (SpecValidate)
TitleValues ==
    { JNull, JStr(<<>>), JStr(<<" ", " ", " ">>), JStr(<<" ", "Write", " ">>),
      JNum(5) }
DescriptionValues ==
    { JNull, JStr(<<>>), JStr(<<"the", " ", "project">>), JNum(0), JNum(5),
      JBool(FALSE) }
PriorityValues ==
    { JNull, JStr(<<>>), JStr(<<"HIGH">>), JStr(<<"urgent">>), JNum(0) }
StatusValues ==
    { JNull, JStr(<<>>), JStr(<<"TODO">>), JStr(<<"IN_PROGRESS">>), JStr(<<"DONE">>),
      JStr(<<"pending">>), JNum(0) }
DueDateValues ==
    { JNull, JStr(<<>>), JStr(<<"2025-12-31">>), JStr(<<"not-a-date">>),
      JBool(FALSE) }

\* base with one field set to one candidate value
OneField(base) ==
    { [base EXCEPT !.title = v] : v \in TitleValues }
    \cup { [base EXCEPT !.description = v] : v \in DescriptionValues }
    \cup { [base EXCEPT !.priority = v] : v \in PriorityValues }
    \cup { [base EXCEPT !.status = v] : v \in StatusValues }
    \cup { [base EXCEPT !.dueDate = v] : v \in DueDateValues }

ValidateRequests ==
    { Request("POST", "u1", NoHeader, 0, b, JNull, JNull) :
        b \in {EmptyBody, TitleOnly, Malformed} \cup OneField(TitleOnly) }
    \cup { Request("PUT", "u1", NoHeader, i, b, JNull, JNull) :
        i \in ValidatedIds, b \in {EmptyBody, Malformed} \cup OneField(EmptyBody) }

NextValidate ==
    \/ CreateTask(ValidateRequests, MaxValidated)
    \/ UpdateTask(ValidateRequests)

SpecValidate == Init /\ [][NextValidate]_vars

\* --------------------------------- list queries over a few rows (SpecList)
ListBodies ==
    { [EmptyBody EXCEPT !.title = JStr(<<"Complete", " ", "Project">>),
                        !.status = JStr(<<"IN_PROGRESS">>)],
      [EmptyBody EXCEPT !.title = JStr(<<"Write", " ", "tests">>)],
      [EmptyBody EXCEPT !.title = JStr(<<"Deploy">>),
                        !.description = JStr(<<"the", " ", "project">>),
                        !.status = JStr(<<"DONE">>)] }

StatusParams ==
    { JNull, JStr(<<>>), JStr(ALL), JStr(<<"TODO">>), JStr(<<"IN_PROGRESS">>),
      JStr(<<"DONE">>), JStr(<<"todo">>) }

SearchParams ==
    { JNull, JStr(<<>>), JStr(<<" ">>), JStr(<<"project">>), JStr(<<"PROJECT">>),
      JStr(<<"project", " ">>), JStr(<<"Write", " ", "tests">>) }

ListRequests ==
    { Request("POST", s, NoHeader, 0, b, JNull, JNull) :
        s \in Users, b \in ListBodies }
    \cup { Request("LIST", s, NoHeader, 0, EmptyBody, q, x) :
        s \in Users, q \in StatusParams, x \in SearchParams }

NextList ==
    \/ CreateTask(ListRequests, MaxTasks)
    \/ ListTasks(ListRequests)

SpecList == Init /\ [][NextList]_vars

\* ------------------------------ partial updates of full rows (SpecUpdate)
FullBody ==
    [EmptyBody EXCEPT !.title = JStr(<<"Complete", " ", "Project">>),
                      !.description = JStr(<<"the", " ", "project">>),
                      !.priority = JStr(<<"MEDIUM">>),
                      !.status = JStr(<<"IN_PROGRESS">>),
                      !.dueDate = JStr(<<"2025-12-31">>)]

UpdateBodies ==
    { [StatusDone EXCEPT !.userId = JStr(<<"u2">>), !.id = JNum(2),
                         !.createdAt = JStr(<<"2026-01-15">>)],
      [EmptyBody EXCEPT !.title = JStr(<<" ", "Write", " ">>),
                        !.priority = JStr(<<"HIGH">>)],
      [EmptyBody EXCEPT !.description = JNull, !.dueDate = JNull] }

UpdateRequests ==
    { Request("POST", s, NoHeader, 0, FullBody, JNull, JNull) : s \in Users }
    \cup { Request("PUT", s, NoHeader, i, b, JNull, JNull) :
        s \in Users, i \in Ids, b \in UpdateBodies }

NextUpdate ==
    \/ CreateTask(UpdateRequests, MaxTasks)
    \/ UpdateTask(UpdateRequests)

SpecUpdate == Init /\ [][NextUpdate]_vars

\* ------------------------------- requests while storage fails (SpecFault)
\* no handler issues more than two storage calls
MaxCalls == 2

FaultRequests ==
    { Request("LIST", s, NoHeader, 0, EmptyBody, q, JNull) :
        s \in Users, q \in {JNull, JStr(<<"todo">>)} }
    \cup { Request("POST", s, NoHeader, 0, b, JNull, JNull) :
        s \in Users, b \in {TitleOnly, [EmptyBody EXCEPT !.title = JStr(<<>>)]} }
    \cup { Request(m, s, NoHeader, i, EmptyBody, JNull, JNull) :
        m \in {"GET", "DELETE"}, s \in Users, i \in Ids }
    \cup { Request("PUT", s, NoHeader, i, b, JNull, JNull) :
        s \in Users, i \in Ids,
        b \in {StatusDone, [EmptyBody EXCEPT !.status = JStr(<<"pending">>)]} }

\* serve one request while storage call number failAt of its handler throws
\* (failAt = 0: none does)
ServeWithFault ==
    \E req \in FaultRequests, failAt \in 0..MaxCalls :
        /\ req.method = "POST" => nextId <= MaxTasks
        /\ LET g == proxy(req.session, req.hdr)
               r == HandleWithFault(taskTable, nextId, g.xUserId, req, failAt)
           IN /\ g.kind = "next"
              /\ taskTable' = r.st
              /\ nextId' = r.nid
              /\ dbLog' = r.log
              /\ last' = [req |-> req, entered |-> TRUE, userId |-> g.xUserId,
                          resp |-> r.resp]
        /\ UNCHANGED <<pageVars, raceVars, appVars>>

NextFault == ServeWithFault

SpecFault == Init /\ [][NextFault]_vars

\* ----------------------- interleaved updates and deletes (SpecRace)
MaxRunning == 2

\* the task the interleaved requests are aimed at
RaceIds == {1}

RaceRequests ==
    { Request("POST", s, NoHeader, 0, TitleOnly, JNull, JNull) : s \in Users }
    \cup { Request("PUT", s, NoHeader, i, b, JNull, JNull) :
        s \in Users, i \in RaceIds,
        b \in { [EmptyBody EXCEPT !.status = JStr(<<"DONE">>),
                                  !.priority = JStr(<<"HIGH">>)],
                [EmptyBody EXCEPT !.status = JStr(<<"IN_PROGRESS">>)] } }
    \cup { Request("DELETE", s, NoHeader, i, EmptyBody, JNull, JNull) :
        s \in Users, i \in RaceIds }

\* a handler that has done its lookup and has its write ahead
Handler(req, userId, by) == [req |-> req, userId |-> userId, overtaker |-> by]

\* a PUT or DELETE handler runs up to its write: it answers at once when the
\* lookup or the validation ends it, and otherwise awaits the storage write
BeginRequest ==
    \E req \in RaceRequests :
        /\ req.method \in {"PUT", "DELETE"}
        /\ Len(running) < MaxRunning
        /\ proxy(req.session, req.hdr).kind = "next"
        /\ LET userId == Forwarded(req)
               early == IF req.method = "PUT"
                        THEN PutCheck(taskTable, userId, req.id, req.body)
                        ELSE DeleteCheck(taskTable, userId, req.id)
           IN IF early.status # 0
              THEN /\ last' = [req |-> req, entered |-> TRUE, userId |-> userId,
                               resp |-> early]
                   /\ overtaker' = NoRequest
                   /\ UNCHANGED running
              ELSE /\ running' = Append(running, Handler(req, userId, NoRequest))
                   /\ UNCHANGED <<last, overtaker>>
        /\ UNCHANGED <<taskTable, nextId, dbLog, pageVars, appVars>>

\* the handlers left when handler k is done; those aimed at the task that
\* handler k wrote have been overtaken by it
Overtaken(k, wrote) ==
    LET rest == SubSeq(running, 1, k - 1) \o SubSeq(running, k + 1, Len(running))
    IN [i \in 1..Len(rest) |->
           IF wrote /\ rest[i].req.id = running[k].req.id
           THEN Handler(rest[i].req, rest[i].userId, running[k].req)
           ELSE rest[i]]

\* one of the waiting handlers does its storage write and answers
FinishRequest ==
    \E k \in 1..Len(running) :
        LET h == running[k]
            r == IF h.req.method = "PUT"
                 THEN PutWrite(taskTable, nextId, h.req.id, h.req.body)
                 ELSE DeleteWrite(taskTable, nextId, h.req.id)
        IN /\ taskTable' = r.st
           /\ nextId' = r.nid
           /\ last' = [req |-> h.req, entered |-> TRUE, userId |-> h.userId,
                       resp |-> r.resp]
           /\ overtaker' = h.overtaker
           /\ running' = Overtaken(k, r.resp.status = 200)
           /\ UNCHANGED <<dbLog, pageVars, appVars>>

NextRace ==
    \/ CreateTask(RaceRequests, MaxTasks)
    \/ BeginRequest
    \/ FinishRequest

SpecRace == Init /\ [][NextRace]_vars

\* ----------------------------------- the page and its requests (SpecPage)
MaxCommits == 1
MaxResetTimers == 1

\* a row as NextResponse.json carries it to the browser: JSON.stringify
\* turns the Date into its ISO text
Serialise(row) ==
    [row EXCEPT !.createdAt = CASE @ = 1 -> "2025-12-29"
                                [] @ = 2 -> "2025-12-30"
                                [] @ = 3 -> "2025-12-31"
                                [] OTHER -> "2026-01-01"]

\* a request of the browser that is under way, and the same once the
\* response (or the failure) is on its way back
Sent(kind, req) ==
    [kind |-> kind, stage |-> "sent", req |-> req, ok |-> FALSE,
     data |-> <<>>, who |-> NoSession, ver |-> 0]

Answered(msg, ok, data, who, ver) ==
    [kind |-> msg.kind, stage |-> "answered", req |-> msg.req, ok |-> ok,
     data |-> data, who |-> who, ver |-> ver]

Without(bag, msg) == bag (-) SetToBag({msg})

\* axios.get("/api/tasks"); the session is the one the cookie has when the
\* request is served
FetchRequest == Request("LIST", NoSession, NoHeader, 0, EmptyBody, JNull, JNull)

\* handleSubmit: onSave({...formData, dueDate: formData.dueDate || null});
\* handleSaveTask: PUT for the task being edited, POST for none
SaveRequest(task, fd) ==
    LET payload ==
            [EmptyBody EXCEPT !.title = JStr(fd.title),
                              !.description = JStr(fd.description),
                              !.status = JStr(fd.status),
                              !.priority = JStr(fd.priority),
                              !.dueDate = IF fd.dueDate # <<>>
                                          THEN JStr(fd.dueDate) ELSE JNull]
    IN IF task # NoTask
       THEN Request("PUT", NoSession, NoHeader, task.id, payload, JNull, JNull)
       ELSE Request("POST", NoSession, NoHeader, 0, payload, JNull, JNull)

\* what the page's handlers do not touch: the services' state and the
\* controls of the list
elsewhere ==
    <<serverVars, raceVars, authSession, commits, filterStatus, sortBy,
      searchQuery, debouncedValue, timers, heldFor>>

\* the page shows its main branch, and no dialog is over it
MainPage == user # NoSession /\ ~isCheckingAuth

\* ---- the services
\* the auth service or the task API serves one of the requests under way
AnswerRequest ==
    \E msg \in BagToSet(inflight) :
           /\ msg.stage = "sent"
           /\ IF msg.kind = "getSession"
              THEN /\ inflight' = Without(inflight, msg) (+)
                          SetToBag({Answered(msg, authSession # NoSession, <<>>,
                                   authSession, commits)})
                   /\ UNCHANGED <<taskTable, nextId, last, authSession, commits>>
              ELSE IF msg.kind = "signOut"
              THEN /\ authSession' = NoSession
                   /\ inflight' = Without(inflight, msg) (+)
                          SetToBag({Answered(msg, TRUE, <<>>, NoSession, commits)})
                   /\ UNCHANGED <<taskTable, nextId, last, commits>>
              ELSE LET req == [msg.req EXCEPT !.session = authSession]
                       g == proxy(req.session, req.hdr)
                       r == IF g.kind = "next"
                            THEN Handle(taskTable, nextId, g.xUserId, req)
                            ELSE Result(taskTable, nextId, GateUnauthorized)
                       n == IF r.st # taskTable THEN commits + 1 ELSE commits
                   IN /\ taskTable' = r.st
                      /\ nextId' = r.nid
                      /\ commits' = n
                      /\ UNCHANGED last
                      /\ inflight' = Without(inflight, msg) (+)
                             SetToBag({Answered(msg, r.resp.status \in {200, 201},
                                      [i \in DOMAIN r.resp.tasks |->
                                          Serialise(r.resp.tasks[i])],
                                      NoSession, n)})
                      /\ UNCHANGED authSession
           /\ UNCHANGED <<dbLog, running, overtaker, pageVars>>
           /\ UNCHANGED <<user, isCheckingAuth, isLoading, error,
                          isTaskModalOpen, isDeleteModalOpen,
                          editingTask, deletingTaskId, modalLoading,
                          formData, resetTimers, shownVer, newestVer>>

\* a request under way fails before it is served: its promise rejects
NetworkFail ==
    \E msg \in BagToSet(inflight) :
        /\ msg.stage = "sent"
        /\ inflight' = Without(inflight, msg) (+)
               SetToBag({Answered(msg, FALSE, <<>>, NoSession, 0)})
        /\ UNCHANGED <<serverVars, raceVars, authSession, commits, pageVars>>
        /\ UNCHANGED <<user, isCheckingAuth, isLoading, error, isTaskModalOpen, isDeleteModalOpen,
                          editingTask, deletingTaskId, modalLoading,
                       formData, resetTimers, shownVer, newestVer>>

\* ---- the page
\* checkAuth after await getSession(): setUser when there is a session, and
\* the effect on [user] then calls fetchTasks; finally clears isCheckingAuth
checkAuth ==
    \E msg \in BagToSet(inflight) :
           /\ msg.kind = "getSession" /\ msg.stage = "answered"
           /\ isCheckingAuth' = FALSE
           /\ IF msg.ok
              THEN /\ user' = msg.who
                   /\ isLoading' = TRUE
                   /\ error' = NoError
                   /\ inflight' = Without(inflight, msg) (+)
                                         SetToBag({Sent("fetchTasks", FetchRequest)})
              ELSE /\ inflight' = Without(inflight, msg)
                   /\ UNCHANGED <<user, isLoading, error>>
           /\ UNCHANGED <<elsewhere, tasks, view, isTaskModalOpen, isDeleteModalOpen,
                          editingTask, deletingTaskId, modalLoading, formData,
                          resetTimers, shownVer, newestVer>>

\* fetchTasks after await axios.get: setTasks(data.tasks) or setError, and
\* finally setIsLoading(false)
fetchTasksMutantDropsStale ==
    \E msg \in BagToSet(inflight) :
           /\ msg.kind = "fetchTasks" /\ msg.stage = "answered"
           /\ inflight' = Without(inflight, msg)
           /\ isLoading' = FALSE
           /\ IF msg.ok /\ msg.ver >= newestVer
              THEN /\ tasks' = msg.data
                   /\ view' = filteredAndSortedTasks(msg.data, filterStatus,
                                                     debouncedValue, sortBy).view
                   /\ shownVer' = msg.ver
                   /\ newestVer' = Max(newestVer, msg.ver)
                   /\ UNCHANGED error
              ELSE /\ error' = IF msg.ok THEN error ELSE "Request failed"
                   /\ UNCHANGED <<tasks, view, shownVer, newestVer>>
           /\ UNCHANGED <<elsewhere, user, isCheckingAuth,
                          isTaskModalOpen, isDeleteModalOpen,
                          editingTask, deletingTaskId, modalLoading,
                          formData, resetTimers>>

fetchTasks ==
    \E msg \in BagToSet(inflight) :
           /\ msg.kind = "fetchTasks" /\ msg.stage = "answered"
           /\ inflight' = Without(inflight, msg)
           /\ isLoading' = FALSE
           /\ IF msg.ok
              THEN /\ tasks' = msg.data
                   /\ view' = filteredAndSortedTasks(msg.data, filterStatus,
                                                     debouncedValue, sortBy).view
                   /\ shownVer' = msg.ver
                   /\ newestVer' = Max(newestVer, msg.ver)
                   /\ UNCHANGED error
              ELSE /\ error' = "Request failed"
                   /\ UNCHANGED <<tasks, view, shownVer, newestVer>>
           /\ UNCHANGED <<elsewhere, user, isCheckingAuth,
                          isTaskModalOpen, isDeleteModalOpen,
                          editingTask, deletingTaskId, modalLoading,
                          formData, resetTimers>>

\* the ErrorState's "Try again": onRetry={fetchTasks}
Retry ==
    /\ MainPage /\ ~isTaskModalOpen /\ ~isDeleteModalOpen
    /\ ~isLoading /\ error # NoError
    /\ isLoading' = TRUE
    /\ error' = NoError
    /\ inflight' = inflight (+) SetToBag({Sent("fetchTasks", FetchRequest)})
    /\ UNCHANGED <<elsewhere, tasks, view, user, isCheckingAuth, isTaskModalOpen, isDeleteModalOpen,
                          editingTask, deletingTaskId, modalLoading,
                   formData, resetTimers, shownVer, newestVer>>

\* handleLogout up to await signOut()
handleLogoutStart ==
    /\ MainPage /\ ~isTaskModalOpen /\ ~isDeleteModalOpen
    /\ \A msg \in BagToSet(inflight) : msg.kind # "signOut"
    /\ inflight' = inflight (+) SetToBag({Sent("signOut", NoRequest)})
    /\ UNCHANGED <<elsewhere, tasks, view, user, isCheckingAuth, isLoading,
                   error, isTaskModalOpen, isDeleteModalOpen,
                          editingTask, deletingTaskId, modalLoading,
                          formData, resetTimers, shownVer, newestVer>>

\* handleLogout after await signOut(): setUser(null), setTasks([]); nothing
\* when signOut rejected
handleLogout ==
    \E msg \in BagToSet(inflight) :
           /\ msg.kind = "signOut" /\ msg.stage = "answered"
           /\ inflight' = Without(inflight, msg)
           /\ IF msg.ok
              THEN /\ user' = NoSession
                   /\ tasks' = <<>>
                   /\ view' = filteredAndSortedTasks(<<>>, filterStatus,
                                                     debouncedValue, sortBy).view
              ELSE UNCHANGED <<user, tasks, view>>
           /\ UNCHANGED <<elsewhere, isCheckingAuth, isLoading,
                          error, isTaskModalOpen, isDeleteModalOpen,
                          editingTask, deletingTaskId, modalLoading,
                          formData, resetTimers, shownVer,
                          newestVer>>

handleNewTask ==
    /\ MainPage /\ ~isTaskModalOpen /\ ~isDeleteModalOpen
    /\ editingTask' = NoTask
    /\ isTaskModalOpen' = TRUE
    /\ UNCHANGED <<elsewhere, tasks, view, inflight, user, isCheckingAuth,
                   isLoading, error, isDeleteModalOpen, deletingTaskId,
                   modalLoading, formData, resetTimers, shownVer, newestVer>>

handleEditTask ==
    \E i \in 1..Len(view) :
        /\ MainPage /\ ~isTaskModalOpen /\ ~isDeleteModalOpen
        /\ ~isLoading /\ error = NoError       \* the list is on the screen
        /\ editingTask' = view[i]
        /\ isTaskModalOpen' = TRUE
        /\ UNCHANGED <<elsewhere, tasks, view, inflight, user, isCheckingAuth,
                       isLoading, error, isDeleteModalOpen, deletingTaskId,
                       modalLoading, formData, resetTimers, shownVer, newestVer>>

handleDeleteClick ==
    \E i \in 1..Len(view) :
        /\ MainPage /\ ~isTaskModalOpen /\ ~isDeleteModalOpen
        /\ ~isLoading /\ error = NoError       \* the list is on the screen
        /\ deletingTaskId' = view[i].id
        /\ isDeleteModalOpen' = TRUE
        /\ UNCHANGED <<elsewhere, tasks, view, inflight, user, isCheckingAuth,
                       isLoading, error, isTaskModalOpen, editingTask,
                       modalLoading, formData, resetTimers, shownVer, newestVer>>

\* the title input's onChange (the input is disabled while isLoading)
ChangeTitle ==
    \E v \in { <<"Write">> } :
        /\ MainPage /\ isTaskModalOpen /\ ~modalLoading
        /\ v # formData.title
        /\ formData' = [formData EXCEPT !.title = v]
        /\ UNCHANGED <<elsewhere, tasks, view, inflight, user, isCheckingAuth,
                       isLoading, error, isTaskModalOpen, isDeleteModalOpen,
                          editingTask, deletingTaskId, modalLoading,
                          resetTimers, shownVer,
                       newestVer>>

\* the form is submitted (title is required, the button is disabled while
\* isLoading): handleSubmit, and handleSaveTask up to its await
handleSubmitMutantNotDisabled ==
    /\ MainPage /\ isTaskModalOpen
    /\ formData.title # <<>>
    /\ commits < MaxCommits
    /\ modalLoading' = TRUE
    /\ inflight' = inflight (+)
                          SetToBag({Sent("handleSaveTask", SaveRequest(editingTask, formData))})
    /\ UNCHANGED <<elsewhere, tasks, view, user, isCheckingAuth, isLoading,
                   error, isTaskModalOpen, isDeleteModalOpen, editingTask,
                   deletingTaskId, formData, resetTimers, shownVer, newestVer>>

handleSubmit ==
    /\ MainPage /\ isTaskModalOpen /\ ~modalLoading
    /\ formData.title # <<>>
    /\ commits < MaxCommits
    /\ modalLoading' = TRUE
    /\ inflight' = inflight (+)
                          SetToBag({Sent("handleSaveTask", SaveRequest(editingTask, formData))})
    /\ UNCHANGED <<elsewhere, tasks, view, user, isCheckingAuth, isLoading,
                   error, isTaskModalOpen, isDeleteModalOpen, editingTask,
                   deletingTaskId, formData, resetTimers, shownVer, newestVer>>

\* handleSaveTask after its await: on success close the modal and call
\* fetchTasks; finally setModalLoading(false)
handleSaveTaskMutantFetchesAlways ==
    \E msg \in BagToSet(inflight) :
           /\ msg.kind = "handleSaveTask" /\ msg.stage = "answered"
           /\ modalLoading' = FALSE
           /\ isTaskModalOpen' = IF msg.ok THEN FALSE ELSE isTaskModalOpen
           /\ isLoading' = TRUE
           /\ error' = NoError
           /\ inflight' = Without(inflight, msg) (+)
                                 SetToBag({Sent("fetchTasks", FetchRequest)})
           /\ UNCHANGED <<elsewhere, tasks, view, user, isCheckingAuth,
                          isDeleteModalOpen, editingTask, deletingTaskId,
                          formData, resetTimers, shownVer, newestVer>>

handleSaveTask ==
    \E msg \in BagToSet(inflight) :
           /\ msg.kind = "handleSaveTask" /\ msg.stage = "answered"
           /\ modalLoading' = FALSE
           /\ IF msg.ok
              THEN /\ isTaskModalOpen' = FALSE
                   /\ isLoading' = TRUE
                   /\ error' = NoError
                   /\ inflight' = Without(inflight, msg) (+)
                                         SetToBag({Sent("fetchTasks", FetchRequest)})
              ELSE /\ inflight' = Without(inflight, msg)
                   /\ UNCHANGED <<isTaskModalOpen, isLoading, error>>
           /\ UNCHANGED <<elsewhere, tasks, view, user, isCheckingAuth,
                          isDeleteModalOpen, editingTask, deletingTaskId,
                          formData, resetTimers, shownVer, newestVer>>

\* the task modal is dismissed: handleClose does nothing while isLoading,
\* else it closes the modal and sets the timeout that blanks the form
handleClose ==
    /\ MainPage /\ isTaskModalOpen
    /\ resetTimers < MaxResetTimers
    /\ IF ~modalLoading
       THEN isTaskModalOpen' = FALSE /\ resetTimers' = resetTimers + 1
       ELSE UNCHANGED <<isTaskModalOpen, resetTimers>>
    /\ UNCHANGED <<elsewhere, tasks, view, inflight, user, isCheckingAuth,
                   isLoading, error, isDeleteModalOpen, editingTask,
                   deletingTaskId, modalLoading, formData, shownVer, newestVer>>

\* the timeout of handleClose fires
FormReset ==
    /\ resetTimers > 0
    /\ resetTimers' = resetTimers - 1
    /\ formData' = BlankFormData
    /\ UNCHANGED <<elsewhere, tasks, view, inflight, user, isCheckingAuth,
                   isLoading, error, isTaskModalOpen, isDeleteModalOpen,
                          editingTask, deletingTaskId, modalLoading, shownVer, newestVer>>

\* the delete dialog's Cancel (disabled while isLoading)
CancelDelete ==
    /\ MainPage /\ isDeleteModalOpen /\ ~modalLoading
    /\ isDeleteModalOpen' = FALSE
    /\ UNCHANGED <<elsewhere, tasks, view, inflight, user, isCheckingAuth,
                   isLoading, error, isTaskModalOpen, editingTask,
                   deletingTaskId, modalLoading, formData, resetTimers,
                   shownVer, newestVer>>

\* the delete dialog's action (disabled while isLoading): handleConfirmDelete
\* up to its await; it returns at once when no id is pending
handleConfirmDeleteStart ==
    /\ MainPage /\ isDeleteModalOpen /\ ~modalLoading
    /\ commits < MaxCommits
    /\ IF deletingTaskId = NoTaskId
       THEN UNCHANGED <<modalLoading, inflight>>
       ELSE /\ modalLoading' = TRUE
            /\ inflight' = inflight (+)
                   SetToBag({Sent("handleConfirmDelete",
                        Request("DELETE", NoSession, NoHeader, deletingTaskId,
                                EmptyBody, JNull, JNull))})
    /\ UNCHANGED <<elsewhere, tasks, view, user, isCheckingAuth, isLoading,
                   error, isTaskModalOpen, isDeleteModalOpen, editingTask,
                   deletingTaskId, formData, resetTimers, shownVer, newestVer>>

\* handleConfirmDelete after its await
handleConfirmDelete ==
    \E msg \in BagToSet(inflight) :
           /\ msg.kind = "handleConfirmDelete" /\ msg.stage = "answered"
           /\ modalLoading' = FALSE
           /\ IF msg.ok
              THEN /\ isDeleteModalOpen' = FALSE
                   /\ deletingTaskId' = NoTaskId
                   /\ isLoading' = TRUE
                   /\ error' = NoError
                   /\ inflight' = Without(inflight, msg) (+)
                                         SetToBag({Sent("fetchTasks", FetchRequest)})
              ELSE /\ inflight' = Without(inflight, msg)
                   /\ UNCHANGED <<isDeleteModalOpen, deletingTaskId, isLoading,
                                  error>>
           /\ UNCHANGED <<elsewhere, tasks, view, user, isCheckingAuth,
                          isTaskModalOpen, editingTask, formData, resetTimers,
                          shownVer, newestVer>>

\* the page as mounted: the useState defaults, checkAuth under way, the
\* browser with a session of u1 or none; the store holds nothing yet, or
\* the task u1 created on an earlier visit
InitPage ==
    /\ \/ taskTable = <<>> /\ nextId = 1
       \/ LET r == TasksPOST(<<>>, 1, "u1", TitleOnly)
          IN taskTable = r.st /\ nextId = r.nid
    /\ last = [req |-> NoRequest, entered |-> FALSE, userId |-> NoHeader,
               resp |-> Response(0, "", "")]
    /\ dbLog = <<>>
    /\ running = <<>>
    /\ overtaker = NoRequest
    /\ ViewInit(<<>>)
    /\ authSession \in {"u1", NoSession}
    /\ commits = 0
    /\ inflight = SetToBag({Sent("getSession", NoRequest)})
    /\ user = NoSession
    /\ isCheckingAuth = TRUE
    /\ isLoading = FALSE
    /\ error = NoError
    /\ isTaskModalOpen = FALSE
    /\ isDeleteModalOpen = FALSE
    /\ editingTask = NoTask
    /\ deletingTaskId = NoTaskId
    /\ modalLoading = FALSE
    /\ formData = InitialFormData(NoTask)
    /\ resetTimers = 0
    /\ shownVer = 0
    /\ newestVer = 0

NextPage ==
    \/ AnswerRequest
    \/ NetworkFail
    \/ checkAuth
    \/ fetchTasks
    \/ Retry
    \/ handleLogoutStart
    \/ handleLogout
    \/ handleNewTask
    \/ handleEditTask
    \/ handleDeleteClick
    \/ ChangeTitle
    \/ handleSubmit
    \/ handleSaveTask
    \/ handleClose
    \/ FormReset
    \/ CancelDelete
    \/ handleConfirmDeleteStart
    \/ handleConfirmDelete

SpecPage == InitPage /\ [][NextPage]_vars

\* ------------------------------------------- the page's view (SpecView)
MaxViewLen == 3
MaxPending == 2

\* tasks of one user as the list endpoint serialises them; the first and
\* the last were created at the same time with the same priority
TaskPool ==
    { Row(1, "u1", <<"Complete", " ", "Project">>, JNull,
          <<"HIGH">>, <<"IN_PROGRESS">>, JNull, "2025-12-29"),
      Row(2, "u1", <<"Write", " ", "tests">>, JStr(<<"the", " ", "PROJECT">>),
          <<"MEDIUM">>, <<"TODO">>, JNull, "2025-12-30"),
      Row(3, "u1", <<"Deploy">>, JNull,
          <<"LOW">>, <<"DONE">>, JNull, "2025-12-31"),
      Row(4, "u1", <<"Deploy">>, JStr(<<>>),
          <<"HIGH">>, <<"TODO">>, JNull, "2025-12-29") }

\* the lists the list endpoint can answer with: distinct tasks, newest first
TaskLists ==
    UNION { { l \in [1..n -> TaskPool] :
                /\ \A i, j \in 1..n : i # j => l[i] # l[j]
                /\ \A i, j \in 1..n :
                       i < j => getTime(l[i].createdAt) >= getTime(l[j].createdAt) }
            : n \in 0..MaxViewLen }

SearchTexts == { <<>>, <<" ">>, <<"project">>, <<"PROJECT">> }

\* useMemo: the callback runs again when one of its dependencies changed
Rerender ==
    IF <<tasks, filterStatus', debouncedValue', sortBy'>>
           # <<tasks, filterStatus, debouncedValue, sortBy>>
    THEN LET r == filteredAndSortedTasks(tasks, filterStatus',
                                         debouncedValue', sortBy')
         IN tasks' = r.source /\ view' = r.view
    ELSE UNCHANGED <<tasks, view>>

\* the status filter is set to another option
SetFilterStatus ==
    \E f \in FilterOptions :
        /\ f # filterStatus
        /\ filterStatus' = f
        /\ UNCHANGED <<sortBy, searchQuery, debouncedValue, timers, heldFor>>
        /\ Rerender
        /\ UNCHANGED <<serverVars, raceVars, appVars>>

\* the sort option is set to another option
SetSortBy ==
    \E k \in SortOptions :
        /\ k # sortBy
        /\ sortBy' = k
        /\ UNCHANGED <<filterStatus, searchQuery, debouncedValue, timers, heldFor>>
        /\ Rerender
        /\ UNCHANGED <<serverVars, raceVars, appVars>>

\* the search box changes: the effect's cleanup clears the pending timeout
\* and the effect sets a new one that captures the new text
TypeSearchMutantNoCleanup ==
    \E v \in SearchTexts :
        /\ v # searchQuery
        /\ Len(timers) < MaxPending
        /\ searchQuery' = v
        /\ timers' = Append(timers, Timer(v, DebounceDelay))
        /\ heldFor' = 0
        /\ UNCHANGED <<filterStatus, sortBy, debouncedValue>>
        /\ Rerender
        /\ UNCHANGED <<serverVars, raceVars, appVars>>

TypeSearchMutantNoTimeout ==
    \E v \in SearchTexts :
        /\ v # searchQuery
        /\ Len(timers) < MaxPending
        /\ searchQuery' = v
        /\ timers' = <<>>
        /\ heldFor' = 0
        /\ UNCHANGED <<filterStatus, sortBy, debouncedValue>>
        /\ Rerender
        /\ UNCHANGED <<serverVars, raceVars, appVars>>

TypeSearch ==
    \E v \in SearchTexts :
        /\ v # searchQuery
        /\ Len(timers) < MaxPending
        /\ searchQuery' = v
        /\ timers' = <<Timer(v, DebounceDelay)>>
        /\ heldFor' = 0
        /\ UNCHANGED <<filterStatus, sortBy, debouncedValue>>
        /\ Rerender
        /\ UNCHANGED <<serverVars, raceVars, appVars>>

\* time passes, TickMs milliseconds at a time
TickMs == 100

Tick ==
    /\ \/ heldFor < DebounceDelay
       \/ \E i \in DOMAIN timers : timers[i].remaining > 0
    /\ heldFor' = Min(heldFor + TickMs, DebounceDelay)
    /\ timers' = [i \in DOMAIN timers |->
                     Timer(timers[i].value, Max(0, timers[i].remaining - TickMs))]
    /\ UNCHANGED <<tasks, filterStatus, sortBy, searchQuery, debouncedValue, view>>
    /\ UNCHANGED <<serverVars, raceVars, appVars>>

\* the oldest timeout is due: its callback runs setDebouncedValue(value)
DebounceFire ==
    /\ timers # <<>>
    /\ Head(timers).remaining = 0
    /\ debouncedValue' = Head(timers).value
    /\ timers' = Tail(timers)
    /\ UNCHANGED <<filterStatus, sortBy, searchQuery, heldFor>>
    /\ Rerender
    /\ UNCHANGED <<serverVars, raceVars, appVars>>

InitView == ServerInit /\ \E list \in TaskLists : PageInit(list)

NextView ==
    \/ SetFilterStatus
    \/ SetSortBy
    \/ TypeSearch
    \/ Tick
    \/ DebounceFire

SpecView == InitView /\ [][NextView]_vars

\* ---------------------------- the debounce under fairness (SpecDebounce)
\* one list of three tasks; time passes and a due timeout does fire
InitDebounce ==
    /\ ServerInit
    /\ \E list \in TaskLists :
           /\ [i \in 1..Len(list) |-> list[i].id] = <<3, 2, 1>>
           /\ PageInit(list)

SpecDebounce ==
    InitDebounce /\ [][NextView]_vars /\ WF_vars(Tick) /\ WF_vars(DebounceFire)

\* ================================================================ claims
\* the rows a response carries
Returned == {last.resp.tasks[i] : i \in 1..Len(last.resp.tasks)}

\* the caller of the last request is a signed-in user
Authenticated == last.req.session \in Users

\* C1: every task in a GET /api/tasks response, and the task returned by
\* GET /api/tasks/{id}, is owned by the caller's session identity.
C1_ReturnedTasksAreOwned ==
    last.req.method \in {"LIST", "GET"} =>
        \A t \in Returned : t.userId = last.req.session

\* a list answered with the caller's task while another user's task exists
C1_Witness ==
    /\ last.req.method = "LIST"
    /\ Returned # {}
    /\ \E i \in DOMAIN taskTable : taskTable[i].userId # last.req.session

\* the request served by the step is one by id (GET, PUT or DELETE)
ByIdStep == last'.req.method \in {"GET", "PUT", "DELETE"}

\* the step serves a by-id request of a signed-in caller on an existing task
\* of another user
ForeignStep ==
    /\ ByIdStep
    /\ last'.req.session \in Users
    /\ last'.req.id \in DOMAIN taskTable
    /\ taskTable[last'.req.id].userId # last'.req.session

\* C2: GET, PUT or DELETE by id on a task owned by another user answers 404
\* (never 403, never 200) and leaves the task table as it was.
C2_ForeignTaskIs404 ==
    [][ForeignStep => /\ last'.resp.status = 404
                      /\ taskTable' = taskTable]_vars

\* PUT {status: DONE} on another user's task was answered 404 and the task
\* kept its status
C2_Witness ==
    /\ last.req.method = "PUT"
    /\ Authenticated
    /\ last.req.body = [EmptyBody EXCEPT !.status = JStr(<<"DONE">>)]
    /\ last.req.id \in DOMAIN taskTable
    /\ taskTable[last.req.id].userId # last.req.session
    /\ taskTable[last.req.id].status # <<"DONE">>
    /\ last.resp.status = 404

\* the rows of st that belong to userId: the table as it would be if no
\* other user had any task
OwnRows(st, userId) ==
    [i \in {j \in DOMAIN st : st[j].userId = userId} |-> st[i]]

\* C3: a by-id request gets the very response it would get if the other
\* users' tasks did not exist; on another user's task that response is the
\* 404 of a missing id whatever the payload (valid, invalid or unparsable).
C3_ForeignIndistinguishable ==
    [][(ByIdStep /\ last'.req.session \in Users) =>
          /\ last'.resp = Handle(OwnRows(taskTable, last'.req.session), nextId,
                                 last'.req.session, last'.req).resp
          /\ (last'.req.id \notin DOMAIN OwnRows(taskTable, last'.req.session)
                => last'.resp = NotFound)]_vars

\* a PUT with an invalid body on another user's task was answered 404
C3_Witness ==
    /\ last.req.method = "PUT"
    /\ Authenticated
    /\ last.req.body.json
    /\ UpdateError(last.req.body) # ""
    /\ last.req.id \in DOMAIN taskTable
    /\ taskTable[last.req.id].userId # last.req.session
    /\ last.resp = NotFound

\* C4: the owner of a created task is the session identity of the request,
\* whatever userId, id or createdAt the payload carries.
C4_OwnerFromSession ==
    (last.req.method = "POST" /\ last.resp.status = 201) =>
        /\ Len(last.resp.tasks) = 1
        /\ last.resp.tasks[1].userId = last.req.session
        /\ last.resp.tasks[1].id \in DOMAIN taskTable
        /\ taskTable[last.resp.tasks[1].id].userId = last.req.session

\* a task was created from a payload naming another user as userId
C4_Witness ==
    /\ last.req.method = "POST"
    /\ last.resp.status = 201
    /\ last.req.body.userId = JStr(<<"u2">>)
    /\ last.req.session = "u1"
    /\ last.req.body.id.t # "undefined"
    /\ last.req.body.createdAt.t # "undefined"

\* C5 (as claimed): a request whose session lookup fails or yields no
\* session is answered 401 by the gate, enters no handler and leaves the
\* task table unchanged.
C5_UnresolvedSessionIs401 ==
    [][last'.req.session \notin Users =>
          /\ last'.resp.status = 401
          /\ ~last'.entered
          /\ taskTable' = taskTable]_vars

\* C6: the handler acts on the session identity; the x-user-id value sent
\* by the client changes neither the storage effect nor the response.
C6_ClientHeaderIgnored ==
    [][last'.entered =>
          /\ last'.userId = last'.req.session
          /\ LET r == Handle(taskTable, nextId, last'.req.session,
                             [last'.req EXCEPT !.hdr = NoHeader])
             IN /\ taskTable' = r.st
                /\ last'.resp = r.resp]_vars

\* a task was created by a caller whose request carried another user's id
\* in x-user-id
C6_Witness ==
    /\ last.req.method = "POST"
    /\ last.req.hdr \in Users \ {last.req.session}
    /\ last.entered
    /\ last.resp.status = 201
    /\ last.resp.tasks[1].userId = last.req.session

\* ids the store assigned to a task that has since been deleted
Deleted == {i \in 1..(nextId - 1) : i \notin DOMAIN taskTable}

\* C7: DELETE of a missing id answers 404; a deleted task never comes back:
\* every later GET, PUT or DELETE of its id answers 404 and no list has it.
C7_DeletedIsGone ==
    [][/\ \A i \in Deleted : i \notin DOMAIN taskTable'
       /\ (ByIdStep /\ last'.req.session \in Users
           /\ last'.req.id \notin DOMAIN taskTable) => last'.resp.status = 404
       /\ last'.req.method = "LIST" =>
             \A k \in 1..Len(last'.resp.tasks) : last'.resp.tasks[k].id \notin Deleted]_vars

\* a second DELETE of an id that was deleted before was answered 404
C7_Witness ==
    /\ last.req.method = "DELETE"
    /\ Authenticated
    /\ last.req.id \in Deleted
    /\ last.resp.status = 404
    /\ DOMAIN taskTable # {}

\* a field counts as present when the payload gives it a value other than null
Present(v) == v.t \notin {"undefined", "null"}

EnumMember(v, enum) == v.t = "string" /\ v.s \in enum

\* the field rules of the contract, for the optional fields
OptionalFieldViolation(body) ==
    \/ Present(body.description) /\ body.description.t # "string"
    \/ Present(body.priority) /\ ~EnumMember(body.priority, Priority)
    \/ Present(body.status) /\ ~EnumMember(body.status, Status)
    \/ Present(body.dueDate) /\ DateParse(body.dueDate) = NaN

BadTitle(v) == v.t # "string" \/ Trim(v.s) = <<>>

\* the step serves a create, or an update of a task the caller owns, whose
\* payload breaks a field rule
RuleBreakingStep ==
    /\ last'.req.session \in Users
    /\ last'.req.body.json
    /\ \/ /\ last'.req.method = "POST"
          /\ BadTitle(last'.req.body.title) \/ OptionalFieldViolation(last'.req.body)
       \/ /\ last'.req.method = "PUT"
          /\ last'.req.id \in DOMAIN taskTable
          /\ taskTable[last'.req.id].userId = last'.req.session
          /\ \/ (last'.req.body.title.t # "undefined" /\ BadTitle(last'.req.body.title))
             \/ OptionalFieldViolation(last'.req.body)

\* C8 (as claimed): a create or update whose payload breaks a field rule is
\* answered 400 (never 500, never a success) and changes no task.
C8_RuleBreakIs400 ==
    [][RuleBreakingStep => /\ last'.resp.status = 400
                           /\ taskTable' = taskTable]_vars

\* C9 (as claimed): a list request whose status value is present and is not
\* TODO, IN_PROGRESS, DONE or ALL is answered 400 without a task list.
C9_UnknownStatusIs400 ==
    (/\ last.req.method = "LIST"
     /\ Authenticated
     /\ last.req.status.t = "string"
     /\ last.req.status.s \notin Status \cup {ALL})
        => (last.resp.status = 400 /\ last.resp.tasks = <<>>)

\* the rows of the caller of the last request
CallerRows == {taskTable[i] : i \in {j \in DOMAIN taskTable :
                                        taskTable[j].userId = last.req.session}}

\* the text occurs in the row's title or description, ignoring case
RowContains(row, text) ==
    \/ Includes(ToLower(row.title), ToLower(text))
    \/ row.description.t = "string"
       /\ Includes(ToLower(row.description.s), ToLower(text))

StatusSelects(row) ==
    last.req.status.t = "string" /\ last.req.status.s \in Status
        => row.status = last.req.status.s

\* a list request of a signed-in caller with status absent, ALL or an enum value
ListedStep ==
    /\ last.req.method = "LIST"
    /\ Authenticated
    /\ last.req.status.t = "string" => last.req.status.s \in Status \cup {ALL}

\* the response lists exactly the rows of the set, each once
ListsExactly(rows) ==
    /\ last.resp.status = 200
    /\ Returned = rows
    /\ Len(last.resp.tasks) = Cardinality(rows)

\* C10 (as claimed): the list holds exactly the caller's tasks selected by
\* the status, restricted when a search text is present to those whose title
\* or description contains that text, ignoring case.
C10_ListMatchesSearchText ==
    ListedStep =>
        ListsExactly({t \in CallerRows :
            /\ StatusSelects(t)
            /\ (last.req.search.t = "string" /\ last.req.search.s # <<>>)
                  => RowContains(t, last.req.search.s)})

\* C10 (amended): as above, with the search text trimmed first: a search
\* that is absent, empty or blank removes nothing, any other restricts the
\* list to the rows containing the trimmed text, ignoring case.
C10_ListMatchesTrimmedSearch ==
    ListedStep =>
        ListsExactly({t \in CallerRows :
            /\ StatusSelects(t)
            /\ (last.req.search.t = "string" /\ Trim(last.req.search.s) # <<>>)
                  => RowContains(t, Trim(last.req.search.s))})

\* search=project, status=ALL over "Complete Project" (IN_PROGRESS) and
\* "Write tests" (TODO) returned only "Complete Project"
C10_Witness ==
    /\ last.req.method = "LIST"
    /\ last.req.status = JStr(ALL)
    /\ last.req.search = JStr(<<"project">>)
    /\ {t.title : t \in CallerRows} =
           {<<"Complete", " ", "Project">>, <<"Write", " ", "tests">>}
    /\ Cardinality(CallerRows) = 2
    /\ {t.title : t \in Returned} = {<<"Complete", " ", "Project">>}

\* the step serves a create of a signed-in caller whose payload parses and
\* has a title that is a string and not blank
ValidTitleCreateStep ==
    /\ last'.req.method = "POST"
    /\ last'.req.session \in Users
    /\ last'.req.body.json
    /\ ~BadTitle(last'.req.body.title)

\* the payload gives none of the optional fields
NoOptionalField(body) ==
    /\ body.description.t = "undefined"
    /\ body.priority.t = "undefined"
    /\ body.status.t = "undefined"
    /\ body.dueDate.t = "undefined"

\* the step adds the row with id nextId, and nothing else, to the table and
\* answers with that row
AddsOneRow ==
    /\ nextId \notin DOMAIN taskTable
    /\ DOMAIN taskTable' = DOMAIN taskTable \cup {nextId}
    /\ \A i \in DOMAIN taskTable : taskTable'[i] = taskTable[i]
    /\ last'.resp.tasks = <<taskTable'[nextId]>>

\* C11: a create with a valid title and no other field answers 201, adds
\* exactly one task and returns it, with the title trimmed, priority LOW,
\* status TODO, no description and no due date; a valid priority or status
\* in the payload is stored as given.
C11_CreateDefaults ==
    [][/\ (ValidTitleCreateStep /\ NoOptionalField(last'.req.body)) =>
             /\ last'.resp.status = 201
             /\ AddsOneRow
             /\ taskTable'[nextId].title = Trim(last'.req.body.title.s)
             /\ taskTable'[nextId].priority = <<"LOW">>
             /\ taskTable'[nextId].status = <<"TODO">>
             /\ taskTable'[nextId].description = JNull
             /\ taskTable'[nextId].dueDate = JNull
       /\ (ValidTitleCreateStep /\ last'.resp.status = 201
           /\ EnumMember(last'.req.body.priority, Priority)) =>
             /\ AddsOneRow
             /\ taskTable'[nextId].priority = last'.req.body.priority.s
       /\ (ValidTitleCreateStep /\ last'.resp.status = 201
           /\ EnumMember(last'.req.body.status, Status)) =>
             /\ AddsOneRow
             /\ taskTable'[nextId].status = last'.req.body.status.s]_vars

\* a create with the title " Write " and nothing else stored "Write" with
\* the defaults
C11_Witness ==
    /\ last.req.method = "POST"
    /\ last.req.body = [EmptyBody EXCEPT !.title = JStr(<<" ", "Write", " ">>)]
    /\ last.resp.status = 201
    /\ Len(last.resp.tasks) = 1
    /\ last.resp.tasks[1].title = <<"Write">>
    /\ last.resp.tasks[1].priority = <<"LOW">>
    /\ last.resp.tasks[1].status = <<"TODO">>
    /\ last.resp.tasks[1].id \in DOMAIN taskTable

\* the step serves an update that was answered 200
UpdatedStep == last'.req.method = "PUT" /\ last'.resp.status = 200

\* C12: a successful update changes, of title, description, priority, status
\* and dueDate, only the fields its payload supplies; id, owner and createdAt
\* stay as they were even when the payload carries userId, id or createdAt;
\* every other task stays as it was.
C12_UpdateTouchesOnlySupplied ==
    [][UpdatedStep =>
         LET id == last'.req.id
             body == last'.req.body
         IN /\ id \in DOMAIN taskTable
            /\ DOMAIN taskTable' = DOMAIN taskTable
            /\ \A j \in DOMAIN taskTable \ {id} : taskTable'[j] = taskTable[j]
            /\ taskTable'[id].id = taskTable[id].id
            /\ taskTable'[id].userId = taskTable[id].userId
            /\ taskTable'[id].createdAt = taskTable[id].createdAt
            /\ body.title.t = "undefined" =>
                   taskTable'[id].title = taskTable[id].title
            /\ body.description.t = "undefined" =>
                   taskTable'[id].description = taskTable[id].description
            /\ body.priority.t = "undefined" =>
                   taskTable'[id].priority = taskTable[id].priority
            /\ body.status.t = "undefined" =>
                   taskTable'[id].status = taskTable[id].status
            /\ body.dueDate.t = "undefined" =>
                   taskTable'[id].dueDate = taskTable[id].dueDate
            /\ nextId' = nextId]_vars

\* an update that carried status, userId, id and createdAt was answered 200
\* on a task that still has its description, its due date and its owner,
\* while another task exists
C12_Witness ==
    /\ last.req.method = "PUT"
    /\ last.resp.status = 200
    /\ last.req.body.userId.t = "string"
    /\ last.req.session = "u1"
    /\ last.req.body.userId = JStr(<<"u2">>)
    /\ last.req.body.createdAt.t = "string"
    /\ last.req.id \in DOMAIN taskTable
    /\ taskTable[last.req.id].status = <<"DONE">>
    /\ taskTable[last.req.id].description = JStr(<<"the", " ", "project">>)
    /\ taskTable[last.req.id].userId = last.req.session
    /\ Cardinality(DOMAIN taskTable) = 2

\* the create payload that carries the same value for the same field as an
\* update payload, and is valid otherwise
PostTwin(body) ==
    IF body.title.t = "undefined" THEN [body EXCEPT !.title = TitleOnly.title]
    ELSE body

\* C13: an update of an owned task is answered 400 exactly when a create
\* whose payload has the same value for the same field, and is valid
\* otherwise, is answered 400.
C13_UpdateRejectsIffCreateRejects ==
    (/\ last.req.method = "PUT"
     /\ last.entered
     /\ last.req.body.json
     /\ last.resp.status \in {200, 400}) =>
        ((last.resp.status = 400) <=>
         (TasksPOST(taskTable, nextId, last.userId,
                    PostTwin(last.req.body)).resp.status = 400))

\* the row has a title that is not empty and has no blank at either end, a
\* status and a priority of the enumerations
WellFormedRow(row) ==
    /\ row.title # <<>>
    /\ row.title[1] # " "
    /\ row.title[Len(row.title)] # " "
    /\ row.status \in {<<"TODO">>, <<"IN_PROGRESS">>, <<"DONE">>}
    /\ row.priority \in {<<"LOW">>, <<"MEDIUM">>, <<"HIGH">>}

\* the step serves an update of the caller's own task whose payload is a
\* status of the enumeration and nothing else
StatusChangeStep ==
    /\ last'.req.method = "PUT"
    /\ last'.req.session \in Users
    /\ last'.req.id \in DOMAIN taskTable
    /\ taskTable[last'.req.id].userId = last'.req.session
    /\ \E s \in {<<"TODO">>, <<"IN_PROGRESS">>, <<"DONE">>} :
           last'.req.body = [EmptyBody EXCEPT !.status = JStr(s)]

\* C14: after any sequence of creates and updates every stored task has a
\* non-empty trimmed title, a status in {TODO, IN_PROGRESS, DONE} and a
\* priority in {LOW, MEDIUM, HIGH}; and whatever the status of a task, its
\* owner's update to a status s is answered 200 and leaves the task in s.
C14_RowsWellFormedAnyStatusChange ==
    /\ [](\A i \in DOMAIN taskTable : WellFormedRow(taskTable[i]))
    /\ [][StatusChangeStep =>
            /\ last'.resp.status = 200
            /\ taskTable'[last'.req.id].status = last'.req.body.status.s]_vars

\* a task was moved back from DONE: the update to IN_PROGRESS was answered
\* 200 and the stored task, still well-formed, is IN_PROGRESS
C14_Witness ==
    /\ last.req.method = "PUT"
    /\ last.req.body = [EmptyBody EXCEPT !.status = JStr(<<"IN_PROGRESS">>)]
    /\ last.resp.status = 200
    /\ last.req.id \in DOMAIN taskTable
    /\ taskTable[last.req.id].status = <<"IN_PROGRESS">>
    /\ taskTable[last.req.id].title = <<"Write">>

\* the tasks of the view, and of the page, by id
ViewIds == {view[i].id : i \in 1..Len(view)}

\* the search text, lowercased, is part of the lowercased title or of the
\* lowercased description of the task (never of a description that is null)
SearchHits(task) ==
    \/ Includes(ToLower(task.title), ToLower(debouncedValue))
    \/ /\ task.description # JNull
       /\ Includes(ToLower(task.description.s), ToLower(debouncedValue))

\* C15: a task of the page is in the view exactly when (the status filter is
\* ALL or equals the task's status) and (the debounced search text is empty
\* or is, lowercased, part of the lowercased title or description); a null
\* description can only match by title; with ALL and no search text the view
\* has every task.
C15_ViewMembership ==
    /\ \A i \in 1..Len(tasks) :
           tasks[i].id \in ViewIds <=>
               /\ filterStatus = ALL \/ tasks[i].status = filterStatus
               /\ debouncedValue = <<>> \/ SearchHits(tasks[i])
    /\ (filterStatus = ALL /\ debouncedValue = <<>>) =>
           ViewIds = {tasks[i].id : i \in 1..Len(tasks)}

\* the search text PROJECT has taken effect with filter TODO: the view has
\* the TODO task whose description says "the PROJECT" and not the TODO task
\* with an empty description
C15_Witness ==
    /\ debouncedValue = <<"PROJECT">>
    /\ filterStatus = <<"TODO">>
    /\ ViewIds = {2}
    /\ {tasks[i].id : i \in 1..Len(tasks)} = {1, 2, 4}

\* the place of a task of the view in the page's task list
PosInTasks(task) == CHOOSE i \in 1..Len(tasks) : tasks[i] = task

\* the rank the sort option gives a task: a task of higher rank goes first
SortRank(task, key) ==
    LET ordinal == IF task.priority = <<"HIGH">> THEN 3
                   ELSE IF task.priority = <<"MEDIUM">> THEN 2 ELSE 1
    IN CASE key = "priority-desc" -> ordinal
         [] key = "priority-asc" -> 0 - ordinal
         [] key = "date-desc" -> getTime(task.createdAt)
         [] key = "date-asc" -> 0 - getTime(task.createdAt)
         [] OTHER -> 0

\* w is ordered by the key, and tasks of equal rank are in the order they
\* have in the page's task list
OrderedBy(w, key) ==
    \A i, j \in 1..Len(w) :
        i < j => \/ SortRank(w[i], key) > SortRank(w[j], key)
                 \/ /\ SortRank(w[i], key) = SortRank(w[j], key)
                    /\ PosInTasks(w[i]) < PosInTasks(w[j])

\* C16: the view is ordered by the sort option: priority-desc puts HIGH
\* before MEDIUM before LOW and priority-asc the reverse (ordinals HIGH 3,
\* MEDIUM 2, LOW 1), date-desc puts the newer createdAt first and date-asc
\* the older; tasks that tie keep the order of the input, and a key that is
\* none of the four keeps the order of the input.
C16_ViewOrder ==
    /\ OrderedBy(view, sortBy)
    /\ OrderedBy(filteredAndSortedTasks(tasks, filterStatus, debouncedValue,
                                        "unknown").view, "unknown")
    /\ priorityOrder(<<"HIGH">>) = 3
    /\ priorityOrder(<<"MEDIUM">>) = 2
    /\ priorityOrder(<<"LOW">>) = 1

\* priority-desc over (Write tests MEDIUM, Deploy HIGH, Complete Project
\* HIGH): the two HIGH tasks come first, in their input order
C16_Witness ==
    /\ sortBy = "priority-desc"
    /\ [i \in 1..Len(tasks) |-> tasks[i].id] = <<2, 4, 1>>
    /\ [i \in 1..Len(view) |-> view[i].id] = <<4, 1, 2>>

\* a storage call of the request served by the step threw
StorageThrewStep == \E i \in DOMAIN dbLog' : dbLog'[i].threw

\* C17: when the storage layer throws inside a task handler the request is
\* answered 500 'Internal server error' (the failure does not escape the
\* handler and the answer is never a 2xx or a 4xx), nothing is written, and
\* the failed call is not tried again.
C17_StorageFailureIs500 ==
    [][StorageThrewStep =>
         /\ last'.resp.status = 500
         /\ last'.resp.error = "Internal server error"
         /\ last'.resp.tasks = <<>>
         /\ taskTable' = taskTable
         /\ nextId' = nextId
         /\ dbLog'[Len(dbLog')].threw
         /\ \A i, j \in DOMAIN dbLog' : i # j => dbLog'[i].op # dbLog'[j].op]_vars

\* the update of an owned task threw after the lookup found it: 500, and
\* the task is not DONE
C17_Witness ==
    /\ last.req.method = "PUT"
    /\ last.req.body = [EmptyBody EXCEPT !.status = JStr(<<"DONE">>)]
    /\ dbLog = <<[op |-> "findFirst", threw |-> FALSE],
                 [op |-> "update", threw |-> TRUE]>>
    /\ last.resp.status = 500
    /\ last.req.id \in DOMAIN taskTable
    /\ taskTable[last.req.id].status = <<"TODO">>

\* C18: at most one timeout of the debounce is pending, and it is the one
\* set for the current search text; every change of the search text clears
\* the pending timeout and sets a new one for the new text; the debounced
\* value only changes to the current search text, and only once the search
\* text has had that value for a full delay.
C18_LatestTimeoutWins ==
    /\ [](/\ Len(timers) <= 1
          /\ \A i \in DOMAIN timers : timers[i].value = searchQuery)
    /\ [][searchQuery' # searchQuery =>
              timers' = <<[value |-> searchQuery', remaining |-> 300]>>]_vars
    /\ [][debouncedValue' # debouncedValue =>
              /\ debouncedValue' = searchQuery
              /\ heldFor >= 300]_vars

\* "project" took effect, then the text changed to "PROJECT": one timeout
\* is pending, for "PROJECT", and the debounced value is still "project"
C18_Witness ==
    /\ debouncedValue = <<"project">>
    /\ searchQuery = <<"PROJECT">>
    /\ Len(timers) = 1
    /\ timers[1].value = <<"PROJECT">>
    /\ timers[1].remaining < 300

\* C19: if the search text stops changing, the debounced value eventually
\* equals it and the view is the one computed from it; and once equal, the
\* debounced value stays equal for as long as the search text does not
\* change.
C19_DebounceSettles ==
    /\ \A v \in SearchTexts :
           (searchQuery = v) ~>
               \/ searchQuery # v
               \/ /\ debouncedValue = v
                  /\ view = filteredAndSortedTasks(tasks, filterStatus, v,
                                                   sortBy).view
    /\ [][(debouncedValue = searchQuery /\ searchQuery' = searchQuery) =>
              debouncedValue' = searchQuery']_vars

\* the search text "project" has settled: no timeout pending, the debounced
\* value equals it and the view has only the tasks that match it
C19_Witness ==
    /\ searchQuery = <<"project">>
    /\ debouncedValue = <<"project">>
    /\ timers = <<>>
    /\ Len(view) < Len(tasks)
    /\ view # <<>>

\* the step derives the view anew: one of filter, debounced text and sort
\* option changed
DerivingStep ==
    <<filterStatus', debouncedValue', sortBy'>>
        # <<filterStatus, debouncedValue, sortBy>>

\* C20: deriving the view leaves the page's task list as it was (same
\* elements, same order), serves no request and sets no other state: of
\* filter, debounced text and sort option only the one that set it off
\* changed; every task of the view is a task of the list.
C20_ViewDerivationIsPure ==
    /\ [](\A i \in 1..Len(view) : \E j \in 1..Len(tasks) : tasks[j] = view[i])
    /\ [][DerivingStep =>
              /\ tasks' = tasks
              /\ UNCHANGED <<taskTable, nextId, last, dbLog>>
              /\ UNCHANGED <<searchQuery, heldFor>>
              /\ Cardinality({k \in 1..3 :
                     <<filterStatus', debouncedValue', sortBy'>>[k]
                         # <<filterStatus, debouncedValue, sortBy>>[k]}) = 1]_vars

\* oldest-first over three tasks: the view is the list reversed and the
\* list is still newest first
C20_Witness ==
    /\ sortBy = "date-asc"
    /\ [i \in 1..Len(tasks) |-> tasks[i].id] = <<3, 2, 1>>
    /\ [i \in 1..Len(view) |-> view[i].id] = <<1, 2, 3>>

\* the step is the storage write of an update of a task that is there
UpdateWriteStep ==
    /\ Len(running') < Len(running)
    /\ last'.req.method = "PUT"
    /\ last'.req.id \in DOMAIN taskTable

\* the step takes up an update by the owner of a task that is there
OwnerUpdateStep ==
    \E req \in RaceRequests :
        /\ req.method = "PUT"
        /\ req.id \in DOMAIN taskTable
        /\ taskTable[req.id].userId = req.session
        /\ \/ running' = Append(running, [req |-> req, userId |-> req.session,
                                           overtaker |-> NoRequest])
           \/ (last' # last /\ last'.req = req /\ running' = running)

\* C22: updates of one task by its owner that interleave are all answered
\* 200, none is rejected as a conflict; each storage update sets the fields
\* its payload supplies and keeps the others, so a field supplied by both
\* ends with the value of the update that ran last and a field supplied by
\* one of them with that one's value.
C22_LastWriteWins ==
    /\ [][OwnerUpdateStep => Len(running') = Len(running) + 1]_vars
    /\ [][UpdateWriteStep =>
            LET id == last'.req.id
                body == last'.req.body
            IN /\ last'.resp.status = 200
               /\ taskTable'[id].status =
                      IF body.status.t = "undefined" THEN taskTable[id].status
                      ELSE body.status.s
               /\ taskTable'[id].priority =
                      IF body.priority.t = "undefined" THEN taskTable[id].priority
                      ELSE body.priority.s
               /\ taskTable'[id].title = taskTable[id].title]_vars

\* {status: IN_PROGRESS} was written after {status: DONE, priority: HIGH}
\* overtook it: both took effect, the status is the later one's and the
\* priority the earlier one's
C22_Witness ==
    /\ last.req.method = "PUT"
    /\ last.req.body = [EmptyBody EXCEPT !.status = JStr(<<"IN_PROGRESS">>)]
    /\ last.resp.status = 200
    /\ overtaker.method = "PUT"
    /\ overtaker.session = last.req.session
    /\ overtaker.body.priority = JStr(<<"HIGH">>)
    /\ taskTable[last.req.id].status = <<"IN_PROGRESS">>
    /\ taskTable[last.req.id].priority = <<"HIGH">>

\* C24: however the owner's requests on one id interleave (DELETE with
\* DELETE, DELETE with PUT), each is answered 200 or 404, never 500.
C24_RaceIs200Or404 ==
    (last.req.method \in {"PUT", "DELETE"} /\ last.entered) =>
        last.resp.status \in {200, 404}

\* C25: an update or a delete handled for a caller changes or removes only
\* a task that the caller owns when the write runs, however the requests of
\* the users interleave.
C25_WritesOnlyOwnTasks ==
    [][\A id \in DOMAIN taskTable :
           (id \notin DOMAIN taskTable' \/ taskTable'[id] # taskTable[id]) =>
               /\ last'.req.method \in {"PUT", "DELETE"}
               /\ last'.req.id = id
               /\ taskTable[id].userId = last'.req.session]_vars

\* u2 deleted the own task 1 while u1 has task 2, and a handler of u2 that
\* looked task 1 up before is still waiting
C25_Witness ==
    /\ last.req.method = "DELETE"
    /\ last.req.session = "u2"
    /\ last.resp.status = 200
    /\ 1 \notin DOMAIN taskTable
    /\ 2 \in DOMAIN taskTable
    /\ taskTable[2].userId = "u1"
    /\ running # <<>>


\* ---- the page and its requests
Mutating == {"handleSaveTask", "handleConfirmDelete"}

Count(bag, kinds) ==
    BagCardinality([m \in {x \in BagToSet(bag) : x.kind \in kinds} |-> bag[m]])

Fetches(bag) == Count(bag, {"fetchTasks"})

\* the continuation of the request at k runs in this step
Settles(msg) ==
    \/ inflight' = Without(inflight, msg)
    \/ inflight' = Without(inflight, msg) (+)
                   SetToBag({Sent("fetchTasks", FetchRequest)})

Settling(kind, ok) ==
    \E msg \in BagToSet(inflight) :
        /\ msg.kind = kind
        /\ msg.stage = "answered"
        /\ msg.ok = ok
        /\ Settles(msg)

\* C21: fetchTasks has no cancellation and no sequencing: whichever
\* successful response settles, its snapshot replaces the list, also when a
\* newer snapshot was applied before, so the page can show a list older
\* than one it has already shown
C21_AnyResponseReplacesList ==
    [][\A msg \in BagToSet(inflight) :
          (/\ msg.kind = "fetchTasks"
           /\ msg.stage = "answered"
           /\ msg.ok
           /\ inflight' = Without(inflight, msg))
          => (tasks' = msg.data /\ shownVer' = msg.ver)]_vars

\* the list on the screen is older than a snapshot applied before it, and
\* differs from the store, while nothing is under way to repair it
C21_Witness ==
    /\ user # NoSession
    /\ inflight = EmptyBag
    /\ shownVer < newestVer
    /\ Len(tasks) # Cardinality(DOMAIN taskTable)

FetchIssued == Fetches(inflight') > Fetches(inflight)

\* the ErrorState is on the screen and a request is added with none settling
ManualRetry ==
    /\ MainPage /\ ~isLoading /\ error # NoError
    /\ BagCardinality(inflight') = BagCardinality(inflight) + 1

\* C23: a fetch is issued exactly when the user becomes authenticated,
\* after a successful save, after a successful delete and on "Try again";
\* a failed save or delete issues none and leaves its modal open; a failed
\* fetch sets the error, leaves the list as it is and is not retried
C23_RefetchPolicy ==
    [][/\ FetchIssued =>
            \/ user = NoSession /\ user' # NoSession
            \/ Settling("handleSaveTask", TRUE)
            \/ Settling("handleConfirmDelete", TRUE)
            \/ ManualRetry
       /\ (user = NoSession /\ user' # NoSession) => FetchIssued
       /\ Settling("handleSaveTask", TRUE) => FetchIssued
       /\ Settling("handleConfirmDelete", TRUE) => FetchIssued
       /\ Settling("handleSaveTask", FALSE) =>
            ~FetchIssued /\ isTaskModalOpen' = isTaskModalOpen
       /\ Settling("handleConfirmDelete", FALSE) =>
            ~FetchIssued /\ isDeleteModalOpen' = isDeleteModalOpen
       /\ Settling("fetchTasks", FALSE) =>
            ~FetchIssued /\ error' # NoError /\ tasks' = tasks]_vars

\* a delete was committed, its handler has finished and closed the dialog,
\* and the fetch it issued is under way
C23_Witness ==
    /\ commits = 1
    /\ taskTable = <<>>
    /\ ~modalLoading /\ ~isDeleteModalOpen
    /\ isLoading
    /\ BagCardinality(inflight) = 1
    /\ Fetches(inflight) = 1

\* C26: once the user is logged out (user null) the task list is empty and
\* stays empty while user is null, also when a fetch was under way at the
\* moment of the logout
C26_NoTasksWhileLoggedOut ==
    user = NoSession => tasks = <<>>

\* C27: isLoading is true in every state in which at least one fetch of
\* fetchTasks is under way, overlapping fetches included
C27_LoadingWhileFetching ==
    Fetches(inflight) > 0 => isLoading

\* C28: at most one mutating request (save or delete) is under way;
\* modalLoading is true exactly while one is; while it is true no submit and
\* no delete confirmation starts another and the user cannot close the task
\* modal; handleConfirmDelete sends nothing when no id is pending
C28_OneMutationAtATime ==
    /\ [](/\ Count(inflight, Mutating) <= 1
          /\ modalLoading <=> Count(inflight, Mutating) = 1)
    /\ [][/\ modalLoading =>
                Count(inflight', Mutating) <= Count(inflight, Mutating)
          /\ (modalLoading /\ isTaskModalOpen /\ ~isTaskModalOpen') =>
                Settling("handleSaveTask", TRUE)
          /\ Count(inflight', {"handleConfirmDelete"})
                > Count(inflight, {"handleConfirmDelete"}) =>
                deletingTaskId # NoTaskId]_vars

\* a save is under way behind the open task modal
C28_Witness ==
    /\ modalLoading
    /\ isTaskModalOpen
    /\ Count(inflight, {"handleSaveTask"}) = 1

\* C29: whenever the task modal is opened, its form holds the values of
\* its target: the fields of the task for an edit, the blank defaults for a
\* new task
C29_FormHoldsTarget ==
    [][(~isTaskModalOpen /\ isTaskModalOpen') =>
          formData' = InitialFormData(editingTask')]_vars

\* nothing is under way and no flag is left set
FlagsClearWhenSettled ==
    inflight = EmptyBag => ~isCheckingAuth /\ ~isLoading /\ ~modalLoading

\* C30: a task fetch is only ever started while user is non-null (and once
\* nothing is under way, isCheckingAuth, isLoading and modalLoading are
\* false)
C30_SettledAndSignedInFetches ==
    /\ []FlagsClearWhenSettled
    /\ [][FetchIssued => user' # NoSession]_vars
====
